---- MODULE Spec2Model ----
(***************************************************************************)
(* SEO audit slide generator: the deck assembler (create_deep_audit_slides *)
(* in api/deep_audit_slides.py) and the page metric extractor              *)
(* (get_page_issues in api/dataforseo_client.py).                          *)
(***************************************************************************)
EXTENDS Integers, Sequences, FiniteSets, TLC

VARIABLES
    pc,                \* position of the slide-generation call
    data,              \* audit data handed to create_deep_audit_slides
    screenshots,       \* slide key -> image state
    issue_counts,      \* optional caller-supplied count map
    requests,          \* the batch of draw operations being accumulated
    needs_work_count,  \* local of create_deep_audit_slides
    calls,             \* rendering-target calls performed, in order
    presentation,      \* result of presentations().create
    submitted,         \* the operation list carried by batchUpdate
    result,            \* value returned by create_deep_audit_slides
    credentials,       \* DATAFORSEO_LOGIN and DATAFORSEO_PASSWORD are set
    response,          \* provider answer to the request of a client call
    page_result,       \* outcome of get_page_issues
    client_result,     \* outcome of another audit-provider client call
    projects,          \* rows of the `projects` table, by id
    inflight,          \* handler -> what it read and has not yet written back
    reply,             \* the last HTTP reply of a handler
    handled,           \* handler invocations so far
    written,           \* the write-backs of the three writers, in the order they were made
    metrics,           \* the figures an annotation helper is called with
    annotation,        \* what the annotation helper returned
    rendering,         \* what format_number returned
    poll_pc,           \* where run_full_site_audit is
    waited,            \* its local `waited`, in seconds
    polls,             \* how many times it has polled the summary
    site_audit,        \* what it returned
    payload,           \* the domain and screenshots of a slide-generation request
    uploaded,          \* slide key -> an upload was made for it and succeeded
    processed_screenshots  \* the image map handed to the deck assembler

deckVars == <<pc, data, screenshots, issue_counts, requests, needs_work_count,
              calls, presentation, submitted, result>>
clientVars == <<credentials, response, page_result, client_result>>
storeVars == <<projects, inflight, reply, handled, written>>
annotVars == <<metrics, annotation, rendering>>
pollVars == <<poll_pc, waited, polls, site_audit>>
uploadVars == <<payload, uploaded, processed_screenshots>>
nonDeckVars == <<clientVars, storeVars, annotVars, pollVars, uploadVars>>
nonClientVars == <<deckVars, storeVars, annotVars, pollVars, uploadVars>>
nonStoreVars == <<deckVars, clientVars, annotVars, pollVars, uploadVars>>
nonAnnotVars == <<deckVars, clientVars, storeVars, pollVars, uploadVars>>
nonPollVars == <<deckVars, clientVars, storeVars, annotVars, uploadVars>>
nonUploadVars == <<deckVars, clientVars, storeVars, annotVars, pollVars>>
vars == <<deckVars, clientVars, storeVars, annotVars, pollVars, uploadVars>>

(***************************************************************************)
(* Bounds                                                                  *)
(***************************************************************************)
MaxPages == 3
MaxKeywords == 2
MaxRawPages == 2
MaxAudits == 2
MaxOps == 3

(***************************************************************************)
(* Small helpers                                                           *)
(***************************************************************************)
RECURSIVE SeqsUpTo(_, _)
SeqsUpTo(S, n) ==
    IF n = 0 THEN { <<>> }
    ELSE LET shorter == SeqsUpTo(S, n - 1)
         IN shorter \cup { Append(q, x) : q \in { r \in shorter : Len(r) = n - 1 }, x \in S }

Min(a, b) == IF a < b THEN a ELSE b

\* number of indices of q satisfying Test
CountIf(q, Test(_)) == Cardinality({ i \in 1..Len(q) : Test(q[i]) })

(***************************************************************************)
(* Screenshots: every key is absent (None / missing), empty or a URL.      *)
(* `screenshots and screenshots.get(k)` is truthy only for a non-empty     *)
(* value; a None map and an empty map are both the all-absent map.         *)
(***************************************************************************)
ImageKeys == {"homepage", "traffic_overview", "keywords_report", "meta_issues",
              "heading_issues", "backlinks", "content_readability", "speed_analysis"}
NoImages == [k \in ImageKeys |-> "absent"]

\* mutant: a key that is present counts as an image even when its value is empty
HasImageWhenPresent(s, k) == s[k] # "absent"

HasImage(s, k) == s[k] = "url"

(***************************************************************************)
(* Heading text: a string is a sequence of characters, so that lower() and *)
(* strip() are computed and not assumed.                                   *)
(***************************************************************************)
LowerChar(c) ==
    CASE c = "W" -> "w"
      [] c = "N" -> "n"
      [] c = "F" -> "f"
      [] c = "A" -> "a"
      [] c = "Q" -> "q"
      [] OTHER -> c

Lower(str) == [i \in 1..Len(str) |-> LowerChar(str[i])]

RECURSIVE LStrip(_)
LStrip(str) ==
    IF str # <<>> /\ Head(str) = " " THEN LStrip(Tail(str)) ELSE str

RECURSIVE RStrip(_)
RStrip(str) ==
    IF str # <<>> /\ str[Len(str)] = " " THEN RStrip(SubSeq(str, 1, Len(str) - 1)) ELSE str

Strip(str) == RStrip(LStrip(str))

\* key = str(val).lower().strip()
HeadingKey(val) == Strip(Lower(val))

HWelc == <<"W", "e", "l", "c">>
HWelcPadded == <<" ", "w", "e", "l", "c", " ">>
HNews == <<"N", "e", "w", "s">>
HFaq == <<"F", "A", "Q">>


(***************************************************************************)
(* Audit data.  A string whose text is never inspected (title,             *)
(* description) is its length; `a or b` on strings picks the first         *)
(* non-empty one.  A page carries the flat fields get_page_issues writes   *)
(* and, optionally, the same fields nested under `meta`; a missing `meta`  *)
(* or a missing field is the falsy value (0, the empty list).              *)
(***************************************************************************)
Fields(title, description, h1, h2, h3, h2_count, h3_count) ==
    [title |-> title, description |-> description, h1 |-> h1, h2 |-> h2, h3 |-> h3,
     h2_count |-> h2_count, h3_count |-> h3_count]

NoFields == Fields(0, 0, <<>>, <<>>, <<>>, 0, 0)

Page(meta, top, title_too_long, load_time) ==
    [meta |-> meta, top |-> top, issues_title_too_long |-> title_too_long,
     load_time |-> load_time]

PageSamples ==
    { Page(NoFields, Fields(30, 100, <<HWelc>>, <<HNews>>, <<HNews>>, 1, 1), FALSE, 1200),
      Page(NoFields, Fields(61, 0, <<HWelc, HWelcPadded>>, <<>>, <<>>, 0, 0), TRUE, 4000),
      Page(Fields(61, 161, <<HWelc>>, <<HNews>>, <<HFaq>>, 11, 16), NoFields, FALSE, 0),
      Page(NoFields, Fields(10, 3, <<HFaq>>, <<HFaq, HFaq>>, <<HNews, HWelc>>, 2, 2), FALSE, 0),
      Page(NoFields, NoFields, TRUE, 0) }

\* the page list: each page gets its position as its url, so urls are distinct
WithUrls(ps) == [i \in 1..Len(ps) |-> [url |-> i, page |-> ps[i]]]

PageLists == { WithUrls(ps) : ps \in SeqsUpTo(PageSamples, MaxPages) }

(***************************************************************************)
(* A keyword: `position` is absent, falsy (null or 0) or a rank; the SERP  *)
(* item's rank_absolute likewise.  0 stands for the falsy value.           *)
(***************************************************************************)
Keyword(has_position, position, has_rank, rank_absolute) ==
    [has_position |-> has_position, position |-> position,
     has_rank |-> has_rank, rank_absolute |-> rank_absolute, search_volume |-> 0]

KeywordSamples ==
    { Keyword(hp, IF hp THEN p ELSE 0, hr, IF hr THEN r ELSE 0) :
        hp \in BOOLEAN, p \in {0, 20, 21, 100, 101}, hr \in BOOLEAN, r \in {5} }

KeywordLists == SeqsUpTo(KeywordSamples, MaxKeywords)

\* data.get('domain_rank', {}): without a non-empty metrics.organic object, or
\* the provider's rank overview with its organic totals
NoRank == [has_organic |-> FALSE, etv |-> 0, count |-> 0]
RankOverview(etv, count) == [has_organic |-> TRUE, etv |-> etv, count |-> count]

\* total_traffic and total_keywords are 0 when the record lacks them
AuditData(pages, keywords) ==
    [pages |-> pages, organic_keywords |-> keywords,
     total_traffic |-> 0, total_keywords |-> 0, domain_rank |-> NoRank]

\* a record that carries the provider's totals next to the keyword sample
WithTotals(keywords, total_traffic, total_keywords, rank) ==
    [AuditData(<<>>, keywords) EXCEPT !.total_traffic = total_traffic,
                                      !.total_keywords = total_keywords,
                                      !.domain_rank = rank]

VolumeKeyword(rank_absolute, search_volume) ==
    [Keyword(FALSE, 0, rank_absolute # 0, rank_absolute) EXCEPT !.search_volume = search_volume]

TotalsSamples ==
    { WithTotals(kl, tt, tk, r) :
        kl \in SeqsUpTo({VolumeKeyword(15, 1000), VolumeKeyword(3, 90), VolumeKeyword(0, 500)},
                        MaxKeywords),
        tt \in {0, 50000}, tk \in {0, 5000},
        r \in {NoRank, RankOverview(48000, 4900), RankOverview(0, 0)} }

EmptyData == AuditData(<<>>, <<>>)

FullData ==
    AuditData(WithUrls(<<CHOOSE p \in PageSamples : p.issues_title_too_long /\ p.top.title = 61,
                         CHOOSE p \in PageSamples : p.meta.title = 61>>),
              <<Keyword(FALSE, 0, TRUE, 5), Keyword(TRUE, 21, FALSE, 0)>>)

(***************************************************************************)
(* issue_counts: None, or a map from count names to integers (possibly     *)
(* empty, possibly lacking names).                                         *)
(***************************************************************************)
CountNames == {"titleTooLong", "noDesc", "descTooLong", "noH1", "multiH1", "noH2",
               "manyH2", "noH3", "manyH3", "dupH1", "dupH2", "dupH3"}

NoIssueCounts == [given |-> FALSE, map |-> <<>>]

IssueCountSamples ==
    { NoIssueCounts,
      [given |-> TRUE, map |-> <<>>],
      [given |-> TRUE, map |-> [k \in CountNames |-> 7]],
      [given |-> TRUE, map |-> [k \in {"titleTooLong", "dupH1"} |-> 4]] }

\* `if issue_counts:` -- None and the empty map are both falsy
Truthy(ic) == ic.given /\ DOMAIN ic.map # {}

\* issue_counts.get(name, 0)
GetCount(ic, name) == IF name \in DOMAIN ic.map THEN ic.map[name] ELSE 0


(***************************************************************************)
(* create_deep_audit_slides: the computed figures                          *)
(***************************************************************************)
\* `a or b` on string lengths / counts, and on lists
Or(a, b) == IF a # 0 THEN a ELSE b
ListOr(a, b) == IF a # <<>> THEN a ELSE b

\* pos = kw.get('position', 100); if not pos: pos = serp_item.get('rank_absolute', 100)
KwPos(kw) ==
    LET pos == IF kw.has_position THEN kw.position ELSE 100
    IN IF pos = 0
       THEN (IF kw.has_rank THEN kw.rank_absolute ELSE 100)
       ELSE pos

\* if pos and pos > 20 and pos <= 100: needs_work_count += 1
NeedsWork(kw) == KwPos(kw) # 0 /\ KwPos(kw) > 20 /\ KwPos(kw) <= 100

\* lines 229-244: total_traffic and total_keywords of create_deep_audit_slides
TotalTraffic(d) ==
    IF d.total_traffic = 0 /\ d.domain_rank.has_organic THEN d.domain_rank.etv
    ELSE d.total_traffic

TotalKeywords(d) ==
    LET tk == IF d.total_keywords = 0 /\ d.domain_rank.has_organic
              THEN d.domain_rank.count ELSE d.total_keywords
    IN IF tk = 0 /\ d.organic_keywords # <<>> THEN Len(d.organic_keywords) ELSE tk

\* lines 1073-1079: int(vol * ctr), ctr = max(0.01, 0.3 - pos * 0.02) for a
\* position up to 10 and 0.01 beyond, in hundredths
EstimatedVisits(kw) ==
    LET pos == IF kw.has_rank THEN kw.rank_absolute ELSE 100
        ctr == IF pos <= 10 THEN (IF 30 - 2 * pos > 1 THEN 30 - 2 * pos ELSE 1) ELSE 1
    IN (kw.search_volume * ctr) \div 100

RECURSIVE SumVisits(_)
SumVisits(keywords) ==
    IF keywords = <<>> THEN 0
    ELSE EstimatedVisits(Head(keywords)) + SumVisits(Tail(keywords))

\* lines 1062-1079: the figures of the traffic dashboard
DashboardFigures(d) ==
    IF d.domain_rank.has_organic
    THEN [kw_count |-> d.domain_rank.count, etv |-> d.domain_rank.etv]
    ELSE [kw_count |-> Len(d.organic_keywords), etv |-> SumVisits(d.organic_keywords)]

RECURSIVE NeedsWorkCount(_)
NeedsWorkCount(keywords) ==
    IF keywords = <<>> THEN 0
    ELSE (IF NeedsWork(Head(keywords)) THEN 1 ELSE 0) + NeedsWorkCount(Tail(keywords))

\* title = meta.get('title') or p.get('title') or ''
PageTitle(p) == Or(p.page.meta.title, p.page.top.title)
PageDesc(p) == Or(p.page.meta.description, p.page.top.description)

\* the three counts of the meta bullets, recomputed from the page list
MetaCountsFromPages(pages) ==
    << CountIf(pages, LAMBDA p : PageTitle(p) > 60),
       CountIf(pages, LAMBDA p : PageDesc(p) = 0 \/ PageDesc(p) < 5),
       CountIf(pages, LAMBDA p : ~(PageDesc(p) = 0 \/ PageDesc(p) < 5) /\ PageDesc(p) > 160) >>

MetaCountsFromMap(ic) ==
    << GetCount(ic, "titleTooLong"), GetCount(ic, "noDesc"), GetCount(ic, "descTooLong") >>

\* h1_list = meta.get('h1') or p.get('h1') or []
TagList(p, tag) == ListOr(p.page.meta[tag], p.page.top[tag])

H1Cnt(p) == Len(TagList(p, "h1"))
H2Cnt(p) == Or(Or(p.page.meta.h2_count, p.page.top.h2_count), Len(TagList(p, "h2")))
H3Cnt(p) == Or(Or(p.page.meta.h3_count, p.page.top.h3_count), Len(TagList(p, "h3")))

\* tag_map[key] = tag_map.get(key, 0) + 1
Incr(tag_map, key) ==
    IF key \in DOMAIN tag_map
    THEN [tag_map EXCEPT ![key] = @ + 1]
    ELSE [k \in DOMAIN tag_map \cup {key} |-> IF k = key THEN 1 ELSE tag_map[k]]

\* mutant: a value is counted once per page, however often the page repeats it
RECURSIVE CountValuesOncePerPage(_, _)
CountValuesOncePerPage(tag_map, tag_list) ==
    IF tag_list = <<>> THEN tag_map
    ELSE LET key == HeadingKey(Head(tag_list))
             again == \E j \in 2..Len(tag_list) : HeadingKey(tag_list[j]) = key
         IN CountValuesOncePerPage(
                IF Len(key) > 3 /\ ~again THEN Incr(tag_map, key) ELSE tag_map,
                Tail(tag_list))

\* for val in tag_list: key = str(val).lower().strip(); if len(key) > 3: count it
RECURSIVE CountValues(_, _)
CountValues(tag_map, tag_list) ==
    IF tag_list = <<>> THEN tag_map
    ELSE LET key == HeadingKey(Head(tag_list))
         IN CountValues(IF Len(key) > 3 THEN Incr(tag_map, key) ELSE tag_map,
                        Tail(tag_list))

\* for p in pages: ... the loop over the page list for one tag
RECURSIVE TagMap(_, _, _)
TagMap(tag_map, pages, tag) ==
    IF pages = <<>> THEN tag_map
    ELSE TagMap(CountValues(tag_map, TagList(Head(pages), tag)), Tail(pages), tag)

\* dup_h1_count = len([k for k, v in h1_map.items() if v > 1])
DupCount(pages, tag) ==
    LET tag_map == TagMap(<<>>, pages, tag)
    IN Cardinality({ k \in DOMAIN tag_map : tag_map[k] > 1 })

\* the nine counts of the heading bullets, in the order the bullets are appended
HeadingCountsFromPages(pages) ==
    << CountIf(pages, LAMBDA p : H1Cnt(p) = 0),
       CountIf(pages, LAMBDA p : H1Cnt(p) > 1),
       DupCount(pages, "h1"),
       CountIf(pages, LAMBDA p : H2Cnt(p) = 0),
       CountIf(pages, LAMBDA p : H2Cnt(p) > 10),
       DupCount(pages, "h2"),
       CountIf(pages, LAMBDA p : H3Cnt(p) = 0),
       CountIf(pages, LAMBDA p : H3Cnt(p) > 15),
       DupCount(pages, "h3") >>

HeadingCountsFromMap(ic) ==
    << GetCount(ic, "noH1"), GetCount(ic, "multiH1"), GetCount(ic, "dupH1"),
       GetCount(ic, "noH2"), GetCount(ic, "manyH2"), GetCount(ic, "dupH2"),
       GetCount(ic, "noH3"), GetCount(ic, "manyH3"), GetCount(ic, "dupH3") >>

\* mutant: the supplied map is ignored and the counts are always recomputed
MetaCountsAlwaysRecomputed(pages, ic) == MetaCountsFromPages(pages)

\* if issue_counts: take the map, else recompute
MetaCounts(pages, ic) ==
    IF Truthy(ic) THEN MetaCountsFromMap(ic) ELSE MetaCountsFromPages(pages)

HeadingCounts(pages, ic) ==
    IF Truthy(ic) THEN HeadingCountsFromMap(ic) ELSE HeadingCountsFromPages(pages)

\* bad_meta = [p for p in pages if p.get('issues', {}).get('title_too_long')][:5]
BadMeta(pages) ==
    LET hit == SelectSeq(pages, LAMBDA p : p.page.issues_title_too_long)
    IN SubSeq(hit, 1, Min(5, Len(hit)))


(***************************************************************************)
(* Draw operations.  An operation names its kind, the slide identifier of  *)
(* the unit that emits it, the suffix appended to that identifier to form  *)
(* the objectId, and the figures its text carries.  A unit's slide         *)
(* identifier (generate_id) is represented by the unit's name.  Each       *)
(* builder lists its requests in the order the code appends them.          *)
(***************************************************************************)
Op(op, sid, suffix, text) == [op |-> op, sid |-> sid, suffix |-> suffix, text |-> text]

\* a text box with its text and its text style
TextBox(sid, suffix, text) ==
    << Op("createShape", sid, suffix, <<>>),
       Op("insertText", sid, suffix, text),
       Op("updateTextStyle", sid, suffix, <<>>) >>

\* a filled rectangle
Panel(sid, suffix) ==
    << Op("createShape", sid, suffix, <<>>),
       Op("updateShapeProperties", sid, suffix, <<>>) >>

\* n insertText requests into the cells of one table
CellTexts(sid, suffix, n) == [i \in 1..n |-> Op("insertText", sid, suffix, <<>>)]

\* mutant: the card of every basic slide is given one fixed objectId
create_basic_slide_shared_card(sid) ==
    << Op("createSlide", sid, "", <<>>),
       Op("updatePageProperties", sid, "", <<>>) >>
    \o TextBox(sid, "_t", <<>>)
    \o Panel("basic", "_card")

create_basic_slide(sid) ==
    << Op("createSlide", sid, "", <<>>),
       Op("updatePageProperties", sid, "", <<>>) >>
    \o TextBox(sid, "_t", <<>>)
    \o Panel(sid, "_card")

\* if annotation: the annotation box over the image
create_slide_image(sid, with_annotation) ==
    << Op("createSlide", sid, "", <<>>),
       Op("updatePageProperties", sid, "", <<>>) >>
    \o TextBox(sid, "_t", <<>>)
    \o << Op("createImage", sid, "_img", <<>>) >>
    \o (IF with_annotation
        THEN << Op("createShape", sid, "_ann_bg", <<>>),
                Op("updateShapeProperties", sid, "_ann_bg", <<>>),
                Op("insertText", sid, "_ann_bg", <<>>),
                Op("updateTextStyle", sid, "_ann_bg", <<>>),
                Op("updateParagraphStyle", sid, "_ann_bg", <<>>) >>
        ELSE <<>>)

\* bullet_items is never empty here: both callers put a default line in an empty list
create_slide_image_with_bullets(sid, bullet_counts) ==
    << Op("createSlide", sid, "", <<>>),
       Op("updatePageProperties", sid, "", <<>>) >>
    \o TextBox(sid, "_t", <<>>)
    \o << Op("createImage", sid, "_img", <<>>) >>
    \o Panel(sid, "_bullets_bg")
    \o TextBox(sid, "_label", <<>>)
    \o TextBox(sid, "_bullets", bullet_counts)
    \o << Op("updateParagraphStyle", sid, "_bullets", <<>>) >>

\* for label, val in metrics.items(): a label box and a value box
DashboardMetric(sid, label, value, text) ==
    TextBox(sid, label, <<>>) \o TextBox(sid, value, text)

create_slide_traffic_dashboard(sid, figures) ==
    << Op("createSlide", sid, "", <<>>),
       Op("updatePageProperties", sid, "", <<>>) >>
    \o TextBox(sid, "_t", <<>>)
    \o Panel(sid, "_card")
    \o DashboardMetric(sid, "_m0_l", "_m0_v", <<figures.kw_count>>)
    \o DashboardMetric(sid, "_m1_l", "_m1_v", <<figures.etv>>)
    \o DashboardMetric(sid, "_m2_l", "_m2_v", <<>>)
    \o DashboardMetric(sid, "_m3_l", "_m3_v", <<>>)
    \o DashboardMetric(sid, "_m4_l", "_m4_v", <<>>)
    \o DashboardMetric(sid, "_m5_l", "_m5_v", <<>>)
    \o TextBox(sid, "_warn", <<>>)

\* five header cells, then five cells per keyword
create_slide_kw_table(sid, keywords) ==
    create_basic_slide(sid)
    \o << Op("createTable", sid, "_tbl", << Len(keywords) + 1 >>) >>
    \o CellTexts(sid, "_tbl", 5 + 5 * Len(keywords))

\* count = len(pages_with_issue); "{count} pages affected"
create_slide_issue_table(sid, pages_with_issue) ==
    create_basic_slide(sid)
    \o TextBox(sid, "_count", << Len(pages_with_issue) >>)
    \o (IF pages_with_issue # <<>>
        THEN << Op("createTable", sid, "_tbl", << Min(Len(pages_with_issue), 5) + 1 >>) >>
             \o CellTexts(sid, "_tbl", 2 + 2 * Min(Len(pages_with_issue), 5))
        ELSE TextBox(sid, "_ok", <<>>))

create_slide_homepage_snapshot(sid) ==
    << Op("createSlide", sid, "", <<>>),
       Op("updatePageProperties", sid, "", <<>>),
       Op("createImage", sid, "_img", <<>>) >>
    \o Panel(sid, "_bg")
    \o TextBox(sid, "_t", <<>>)

create_slide_cover(sid) ==
    << Op("createSlide", sid, "", <<>>) >>
    \o Panel(sid, "_panel")
    \o Panel(sid, "_pill")
    \o << Op("insertText", sid, "_pill", <<>>),
          Op("updateTextStyle", sid, "_pill", <<>>),
          Op("updateParagraphStyle", sid, "_pill", <<>>) >>
    \o TextBox(sid, "_title", <<>>)
    \o TextBox(sid, "_subtitle", <<>>)
    \o << Op("createImage", sid, "_funnel", <<>>) >>

create_slide_speed(sid) ==
    create_basic_slide(sid)
    \o Panel(sid, "_c")
    \o TextBox(sid, "_s", <<>>)
    \o TextBox(sid, "_msg", <<>>)
    \o TextBox(sid, "_lt", <<>>)

create_slide_thank_you(sid) ==
    << Op("createSlide", sid, "", <<>>),
       Op("updatePageProperties", sid, "", <<>>) >>
    \o TextBox(sid, "_thankyou", <<>>)
    \o << Op("updateParagraphStyle", sid, "_thankyou", <<>>) >>

\* if stat: the statistic box under the body
create_slide_scare_explainer(sid, stat) ==
    << Op("createSlide", sid, "", <<>>),
       Op("updatePageProperties", sid, "", <<>>) >>
    \o Panel(sid, "_sidebar")
    \o TextBox(sid, "_title", <<>>)
    \o TextBox(sid, "_body", <<>>)
    \o << Op("updateParagraphStyle", sid, "_body", <<>>) >>
    \o (IF stat THEN TextBox(sid, "_stat", <<>>) ELSE <<>>)

\* SCARE_CONTENT[key]['stat'] is the empty string for 'organic' alone
SCARE_CONTENT(key) == [stat |-> key # "organic"]

(***************************************************************************)
(* create_deep_audit_slides: the slide units, section by section           *)
(***************************************************************************)
CoverUnit == create_slide_cover("cover")

\* if screenshots and screenshots.get('homepage'): homepage snapshot
HomepageUnit(s) ==
    IF HasImage(s, "homepage") THEN create_slide_homepage_snapshot("homepage") ELSE <<>>

OrganicSection(d, s) ==
    create_slide_scare_explainer("expl_organic", SCARE_CONTENT("organic").stat)
    \o (IF HasImage(s, "traffic_overview")
        THEN create_slide_image("data_overview", FALSE)
        ELSE create_slide_traffic_dashboard("data_overview", DashboardFigures(d)))
    \o (IF HasImage(s, "keywords_report")
        THEN create_slide_image("data_keywords", TRUE)
        ELSE create_slide_kw_table("data_keywords",
                 SubSeq(d.organic_keywords, 1, Min(7, Len(d.organic_keywords)))))

MetaData(d, s, ic) ==
    IF HasImage(s, "meta_issues")
    THEN create_slide_image_with_bullets("data_meta", MetaCounts(d.pages, ic))
    ELSE create_slide_issue_table("data_meta", BadMeta(d.pages))

MetaSection(d, s, ic) == create_slide_scare_explainer("expl_meta", SCARE_CONTENT("meta").stat) \o MetaData(d, s, ic)

\* the heading data slide has no else branch
HeadingData(d, s, ic) ==
    IF HasImage(s, "heading_issues")
    THEN create_slide_image_with_bullets("data_headings", HeadingCounts(d.pages, ic))
    ELSE <<>>

HeadingSection(d, s, ic) ==
    create_slide_scare_explainer("expl_headings", SCARE_CONTENT("headings").stat) \o HeadingData(d, s, ic)

BacklinksData(s) ==
    IF HasImage(s, "backlinks") THEN create_slide_image("data_backlinks", TRUE) ELSE <<>>

BacklinksSection(s) == create_slide_scare_explainer("expl_backlinks", SCARE_CONTENT("backlinks").stat) \o BacklinksData(s)

\* the content data slide has no else branch
ContentData(s) ==
    IF HasImage(s, "content_readability") THEN create_slide_image("data_content", TRUE) ELSE <<>>

ContentSection(s) == create_slide_scare_explainer("expl_content", SCARE_CONTENT("content").stat) \o ContentData(s)

\* mutant: the speed data slide loses its fallback
SpeedSectionWithoutFallback(s) ==
    create_slide_scare_explainer("expl_speed", SCARE_CONTENT("speed").stat)
    \o (IF HasImage(s, "speed_analysis") THEN create_slide_image("data_speed", TRUE) ELSE <<>>)

SpeedSection(s) ==
    create_slide_scare_explainer("expl_speed", SCARE_CONTENT("speed").stat)
    \o (IF HasImage(s, "speed_analysis")
        THEN create_slide_image("data_speed", TRUE)
        ELSE create_slide_speed("data_speed"))

ThankYouUnit == create_slide_thank_you("thank_you")

\* mutant: the backlinks section is appended before the headings section
SlideUnitsBacklinksEarly(d, s, ic) ==
    CoverUnit
    \o HomepageUnit(s)
    \o OrganicSection(d, s)
    \o MetaSection(d, s, ic)
    \o BacklinksSection(s)
    \o HeadingSection(d, s, ic)
    \o ContentSection(s)
    \o SpeedSection(s)
    \o ThankYouUnit

\* the requests.extend(...) calls of lines 275-477, in program order
SlideUnits(d, s, ic) ==
    CoverUnit
    \o HomepageUnit(s)
    \o OrganicSection(d, s)
    \o MetaSection(d, s, ic)
    \o HeadingSection(d, s, ic)
    \o BacklinksSection(s)
    \o ContentSection(s)
    \o SpeedSection(s)
    \o ThankYouUnit


(***************************************************************************)
(* create_deep_audit_slides: the call, step by step.  Every call to the    *)
(* rendering target may raise; an exception leaves the function at once.   *)
(***************************************************************************)
Call(name, ok) == [call |-> name, ok |-> ok]

\* presentations().create(...).execute(); a fresh presentation may hold a
\* blank first slide, whose deleteObject then opens the batch
CreatePresentation ==
    /\ pc = "start"
    /\ \E ok \in BOOLEAN, has_blank \in BOOLEAN :
         /\ calls' = Append(calls, Call("create", ok))
         /\ IF ok
            THEN /\ presentation' = [presentationId |-> "pid", has_blank |-> has_blank]
                 /\ requests' = IF has_blank
                                THEN << Op("deleteObject", "blank", "", <<>>) >>
                                ELSE <<>>
                 /\ pc' = "created"
            ELSE /\ has_blank = FALSE
                 /\ UNCHANGED <<presentation, requests>>
                 /\ pc' = "raised"
    /\ UNCHANGED <<data, screenshots, issue_counts, needs_work_count, submitted, result, nonDeckVars>>

\* lines 227-477: the figures are computed and every unit is appended
Assemble ==
    /\ pc = "created"
    /\ needs_work_count' = NeedsWorkCount(data.organic_keywords)
    /\ requests' = requests \o SlideUnits(data, screenshots, issue_counts)
    /\ pc' = "assembled"
    /\ UNCHANGED <<data, screenshots, issue_counts, calls, presentation, submitted, result, nonDeckVars>>

\* mutant: a failed batchUpdate is swallowed and the call goes on
BatchUpdateFailureIgnored ==
    /\ pc = "assembled"
    /\ \E ok \in BOOLEAN :
         /\ calls' = Append(calls, Call("batchUpdate", ok))
         /\ submitted' = requests
         /\ pc' = "batched"
    /\ UNCHANGED <<data, screenshots, issue_counts, requests, needs_work_count,
                   presentation, result, nonDeckVars>>

\* presentations().batchUpdate(presentationId=pid, body={'requests': requests})
BatchUpdate ==
    /\ pc = "assembled"
    /\ \E ok \in BOOLEAN :
         /\ calls' = Append(calls, Call("batchUpdate", ok))
         /\ submitted' = requests
         /\ pc' = IF ok THEN "batched" ELSE "raised"
    /\ UNCHANGED <<data, screenshots, issue_counts, requests, needs_work_count,
                   presentation, result, nonDeckVars>>

\* permissions().create(fileId=pid, body={'type': 'anyone', 'role': 'reader'})
SetPermission ==
    /\ pc = "batched"
    /\ \E ok \in BOOLEAN :
         /\ calls' = Append(calls, Call("permission", ok))
         /\ pc' = IF ok THEN "shared" ELSE "raised"
    /\ UNCHANGED <<data, screenshots, issue_counts, requests, needs_work_count,
                   presentation, submitted, result, nonDeckVars>>

\* return {"presentation_id": pid, "presentation_url": ...}
Return ==
    /\ pc = "shared"
    /\ result' = [presentation_id |-> presentation.presentationId,
                  presentation_url |-> <<"https://docs.google.com/presentation/d/",
                                         presentation.presentationId, "/edit">>]
    /\ pc' = "returned"
    /\ UNCHANGED <<data, screenshots, issue_counts, requests, needs_work_count, calls,
                   presentation, submitted, nonDeckVars>>

NoResult == [presentation_id |-> "", presentation_url |-> <<>>]
NoPresentation == [presentationId |-> "", has_blank |-> FALSE]
NoResponse == [to |-> "none", kind |-> "none", items |-> <<>>]
NoPageResult == [kind |-> "none", exc |-> "none", pages |-> <<>>]
NoClientResult == [fn |-> "none", kind |-> "none", exc |-> "none", val |-> <<>>]

\* no slide-generation call is in progress
DeckIdle ==
    /\ pc = "idle"
    /\ screenshots = NoImages
    /\ data = EmptyData
    /\ issue_counts = NoIssueCounts
    /\ requests = <<>>
    /\ needs_work_count = 0
    /\ calls = <<>>
    /\ presentation = NoPresentation
    /\ submitted = <<>>
    /\ result = NoResult

\* handlers that read a record, call out, and write the record back
Writers == {"save_audit_results", "analyze_readability", "refresh_speed"}

NotInFlight == [audit_id |-> 0]
NoReply == [handler |-> "none", code |-> 0, audit_id |-> 0, body |-> <<>>]

\* the table is empty and no handler has been invoked
StoreIdle ==
    /\ projects = <<>>
    /\ inflight = [h \in Writers |-> NotInFlight]
    /\ reply = NoReply
    /\ handled = 0
    /\ written = <<>>

UploadKeys == {"homepage", "traffic_overview", "backlinks"}

NoPayload == [domain_known |-> FALSE, is_dict |-> TRUE, screenshots |-> [k \in UploadKeys |-> "absent"]]
NotProcessed == [done |-> FALSE, keys |-> {}]

\* no slide-generation request has supplied screenshots
UploadIdle ==
    /\ payload = NoPayload
    /\ uploaded = [k \in UploadKeys |-> FALSE]
    /\ processed_screenshots = NotProcessed

NoAudit == [kind |-> "none", success |-> FALSE]

\* run_full_site_audit has not been called
PollIdle == poll_pc = "idle" /\ waited = 0 /\ polls = 0 /\ site_audit = NoAudit

NoMetrics == [traffic |-> 0, needs_work_count |-> 0, count |-> 0, referring_domains |-> 0,
              high_spam_count |-> 0, score |-> 0, grades |-> <<>>, n |-> 0]
NoAnnotation == [fn |-> "none", mark |-> "", label |-> ""]
NoRendering == [fn |-> "none", whole |-> 0, tenth |-> -1, suffix |-> ""]

\* no annotation helper has been called
AnnotIdle == metrics = NoMetrics /\ annotation = NoAnnotation /\ rendering = NoRendering

\* no audit-provider client call is in progress
ClientIdle ==
    /\ credentials = TRUE
    /\ response = NoResponse
    /\ page_result = NoPageResult
    /\ client_result = NoClientResult

\* the inputs of one slide-generation call
DeckInputs ==
    \/ /\ screenshots \in [ImageKeys -> {"absent", "url"}] \cup [ImageKeys -> {"empty", "url"}]
       /\ data \in {EmptyData, FullData}
       /\ issue_counts = NoIssueCounts
    \/ /\ screenshots \in { NoImages,
                            [k \in ImageKeys |-> IF k \in {"meta_issues", "heading_issues"}
                                                 THEN "url" ELSE "absent"] }
       /\ data \in { AuditData(pl, <<>>) : pl \in PageLists }
       /\ issue_counts \in IssueCountSamples
    \/ /\ screenshots = NoImages
       /\ data \in { AuditData(<<>>, kl) : kl \in KeywordLists }
       /\ issue_counts = NoIssueCounts
    \/ /\ screenshots \in { NoImages,
                            [k \in ImageKeys |-> IF k = "traffic_overview" THEN "url" ELSE "absent"] }
       /\ data \in TotalsSamples
       /\ issue_counts = NoIssueCounts

Init ==
    /\ pc = "start"
    /\ DeckInputs
    /\ requests = <<>>
    /\ needs_work_count = 0
    /\ calls = <<>>
    /\ presentation = NoPresentation
    /\ submitted = <<>>
    /\ result = NoResult
    /\ ClientIdle
    /\ StoreIdle
    /\ AnnotIdle
    /\ PollIdle
    /\ UploadIdle

Next ==
    \/ CreatePresentation
    \/ Assemble
    \/ BatchUpdate
    \/ SetPermission
    \/ Return

Spec == Init /\ [][Next]_vars


(***************************************************************************)
(* get_page_issues.  Provider JSON is a tagged value, so that null, a      *)
(* missing key and a value of another type stay distinguishable.  A string *)
(* is its length and whether it starts with "https".                       *)
(***************************************************************************)
JNull == [t |-> "null"]
JInt(n) == [t |-> "int", v |-> n]
JBool(b) == [t |-> "bool", v |-> b]
JStr(n, https) == [t |-> "str", len |-> n, https |-> https]
JList(q) == [t |-> "list", v |-> q]
JDict(f) == [t |-> "dict", v |-> f]
EmptyDict == JDict(<<>>)

\* Python truthiness
Falsy(x) ==
    CASE x.t = "null" -> TRUE
      [] x.t = "int" -> x.v = 0
      [] x.t = "bool" -> ~x.v
      [] x.t = "str" -> x.len = 0
      [] x.t = "list" -> x.v = <<>>
      [] x.t = "dict" -> DOMAIN x.v = {}

\* a or b
PyOr(a, b) == IF Falsy(a) THEN b ELSE a

\* d.get(k) and d.get(k, default): the default is used only for a missing key
Get(d, k) == IF k \in DOMAIN d.v THEN d.v[k] ELSE JNull
GetD(d, k, default) == IF k \in DOMAIN d.v THEN d.v[k] ELSE default

\* len(x) of a string or a list
PyLen(x) == IF x.t = "str" THEN x.len ELSE Len(x.v)

\* str(page.get('url', '')).startswith('https')
StartsWithHttps(x) == x.t = "str" /\ x.https

\* lines 264-472: one raw item to one formatted page
FormatPage(page) ==
    LET meta == PyOr(Get(page, "meta"), EmptyDict)
        htags == PyOr(Get(meta, "htags"), EmptyDict)
        h1_list == PyOr(Get(htags, "h1"), JList(<<>>))
        title == PyOr(Get(meta, "title"), JStr(0, FALSE))
        description == PyOr(Get(meta, "description"), JStr(0, FALSE))
        page_timing == PyOr(Get(page, "page_timing"), EmptyDict)
        content_info == PyOr(Get(meta, "content"), EmptyDict)
        checks == PyOr(Get(page, "checks"), EmptyDict)
        time_to_interactive == PyOr(Get(page_timing, "time_to_interactive"), JInt(0))
        load_time_ms == PyOr(time_to_interactive, JInt(0))
        word_count == PyOr(GetD(content_info, "plain_text_word_count", JInt(0)), JInt(0))
    IN [ url |-> Get(page, "url"),
         status_code |-> Get(page, "status_code"),
         onpage_score |-> GetD(page, "onpage_score", JInt(0)),
         title |-> title,
         title_length |-> JInt(PyLen(title)),
         description |-> description,
         h1 |-> h1_list,
         h1_count |-> JInt(PyLen(h1_list)),
         load_time |-> load_time_ms,
         word_count |-> word_count,
         is_https |-> PyOr(GetD(checks, "is_https", JBool(FALSE)),
                           JBool(StartsWithHttps(GetD(page, "url", JStr(0, FALSE))))),
         is_http |-> GetD(checks, "is_http", JBool(FALSE)),
         issues |->
           [ no_title |-> GetD(checks, "no_title", JBool(Falsy(title))),
             no_description |-> GetD(checks, "no_description", JBool(Falsy(description))),
             no_h1 |-> GetD(checks, "no_h1_tag", JBool(PyLen(h1_list) = 0)),
             multiple_h1 |-> JBool(PyLen(h1_list) > 1),
             title_too_long |-> GetD(checks, "title_too_long", JBool(PyLen(title) > 60)),
             description_too_long |-> JBool(PyLen(description) > 160),
             is_broken |-> GetD(checks, "is_broken", JBool(FALSE)),
             slow_load |-> GetD(checks, "high_loading_time", JBool(load_time_ms.v > 3000)),
             low_content |-> GetD(checks, "low_content_rate", JBool(word_count.v < 300)),
             duplicate_description |-> GetD(page, "duplicate_description", JBool(FALSE)),
             seo_friendly_url |-> GetD(checks, "seo_friendly_url", JBool(TRUE)) ] ]

\* a value on which .get(...) raises AttributeError: anything truthy but a dict
NotADict(x) == x.t # "dict"

\* lines 264-472 raise for this raw item: the item itself is not an object
\* (page.get), or `x.get(...) or {}` kept a truthy scalar whose .get is then
\* called, or len() is taken of a number
PageRaises(page) ==
    \/ NotADict(page)
    \/ LET meta == PyOr(Get(page, "meta"), EmptyDict)
       IN \/ NotADict(meta)
          \/ NotADict(PyOr(Get(meta, "htags"), EmptyDict))
          \/ NotADict(PyOr(Get(meta, "content"), EmptyDict))
          \/ PyOr(Get(meta, "title"), JStr(0, FALSE)).t \notin {"str", "list", "dict"}
    \/ NotADict(PyOr(Get(page, "page_timing"), EmptyDict))
    \/ NotADict(PyOr(Get(page, "checks"), EmptyDict))

\* for page in pages: formatted_pages.append({...})
FormatPages(items) == [i \in 1..Len(items) |-> FormatPage(items[i])]

(***************************************************************************)
(* Raw page items the provider may send                                    *)
(***************************************************************************)
Rec1(k1, v1) == [k \in {k1} |-> v1]
Rec2(k1, v1, k2, v2) == [k \in {k1, k2} |-> IF k = k1 THEN v1 ELSE v2]

\* a dict without the keys whose value is the marker "missing"
Missing == [t |-> "missing"]
DictOf(f) == JDict([k \in { j \in DOMAIN f : f[j] # Missing } |-> f[k]])

RawPage(url, status_code, onpage_score, meta, checks, page_timing) ==
    DictOf([k \in {"url", "status_code", "onpage_score", "meta", "checks", "page_timing"} |->
              CASE k = "url" -> url
                [] k = "status_code" -> status_code
                [] k = "onpage_score" -> onpage_score
                [] k = "meta" -> meta
                [] k = "checks" -> checks
                [] k = "page_timing" -> page_timing])

BaseUrl == JStr(24, TRUE)
BaseMeta ==
    JDict([k \in {"title", "description", "htags", "content"} |->
            CASE k = "title" -> JStr(40, FALSE)
              [] k = "description" -> JStr(120, FALSE)
              [] k = "htags" -> JDict(Rec1("h1", JList(<<JStr(7, FALSE)>>)))
              [] k = "content" -> JDict(Rec1("plain_text_word_count", JInt(500)))])
BaseChecks == JDict(Rec2("is_broken", JBool(FALSE), "is_https", JBool(TRUE)))
BaseTiming == JDict(Rec1("time_to_interactive", JInt(3500)))

MetaSamples ==
    { Missing, JNull, BaseMeta,
      JDict(Rec2("title", JNull, "htags", JNull)),
      JDict(Rec2("title", JStr(61, FALSE), "htags", JDict(Rec1("h1", JNull)))),
      JDict(Rec2("description", JStr(161, FALSE), "htags",
                JDict(Rec1("h1", JList(<<JStr(7, FALSE), JStr(9, FALSE)>>))))),
      JDict(Rec2("title", JStr(10, FALSE), "content",
                JDict(Rec1("plain_text_word_count", JNull)))) }

ChecksSamples ==
    { Missing, JNull, BaseChecks,
      JDict(Rec1("is_broken", JNull)),
      JDict(Rec2("no_title", JBool(TRUE), "is_http", JNull)),
      JDict(Rec2("title_too_long", JNull, "seo_friendly_url", JBool(FALSE))),
      JDict(Rec2("is_https", JNull, "high_loading_time", JBool(TRUE))) }

\* items that are not the object the extractor expects: a null item, a scalar
\* item, and items whose meta, htags or checks is a scalar (falsy scalars
\* included, which `or {}` replaces)
MalformedSamples ==
    { JNull, JInt(7),
      RawPage(BaseUrl, JInt(200), JInt(87), JStr(5, FALSE), BaseChecks, BaseTiming),
      RawPage(BaseUrl, JInt(200), JInt(87), JInt(0), BaseChecks, BaseTiming),
      RawPage(BaseUrl, JInt(200), JInt(87), JDict(Rec1("htags", JStr(2, FALSE))),
              BaseChecks, BaseTiming),
      RawPage(BaseUrl, JInt(200), JInt(87), BaseMeta, JInt(1), BaseTiming),
      RawPage(BaseUrl, JInt(200), JInt(87), BaseMeta, JBool(FALSE), BaseTiming) }

RawPageSamples ==
    { RawPage(u, sc, os, BaseMeta, BaseChecks, BaseTiming) :
        u \in {JNull, BaseUrl, JStr(23, FALSE)}, sc \in {JNull, JInt(200), JInt(404)},
        os \in {Missing, JNull, JInt(87)} }
    \cup { RawPage(BaseUrl, JInt(200), JInt(87), m, BaseChecks, t) :
             m \in MetaSamples, t \in {JNull, BaseTiming} }
    \cup { RawPage(BaseUrl, JInt(200), JInt(87), m, c, BaseTiming) :
             m \in {Missing, BaseMeta}, c \in ChecksSamples }
    \cup MalformedSamples

(***************************************************************************)
(* Provider answers.  `to` names the client call whose request is answered *)
(* and `kind` the shape of the answer:                                     *)
(*   http_error    requests raised (transport error or raise_for_status)   *)
(*   api_error     status_code is not 20000 and there is no task           *)
(*   empty_tasks   status_code 20000, tasks is []                          *)
(*   null_task     tasks is [null]                                         *)
(*   null_result   tasks[0].result is null                                 *)
(*   empty_result  tasks[0].result is []                                   *)
(*   no_result     tasks[0] has no result key                              *)
(*   ok            tasks[0].result[0] is an object                         *)
(* `items` is what the call reads of an ok answer: the page items, the     *)
(* ready tasks, the summary object, the links, or the posted task.         *)
(***************************************************************************)
ClientCalls ==
    {"start_onpage_audit", "get_audit_status", "get_audit_summary",
     "get_page_issues", "get_links_data"}

FailureKinds == {"http_error", "api_error", "empty_tasks", "null_result", "empty_result"}

Answer(to, kind, items) == [to |-> to, kind |-> kind, items |-> items]

\* the identifier of the crawl task the calls ask about
TaskId == JInt(1)

TaskSamples == { JDict(Rec1("id", TaskId)), JDict(Rec1("id", JInt(2))), JDict(Rec1("id", JNull)) }

JWord(w) == [t |-> "str", len |-> 8, https |-> FALSE, word |-> w]

Progress(crawled, queued) == JDict(Rec2("pages_crawled", JInt(crawled), "pages_in_queue", JInt(queued)))

\* result[0] of on_page/summary: crawl_progress is a word or a progress object
SummarySamples ==
    { JDict(Rec1("crawl_progress", JWord("finished"))),
      JDict(Rec2("crawl_progress", JWord("in_progress"), "crawl_status", Progress(3, 4))),
      JDict(Rec2("crawl_progress", JWord("in_progress"), "crawl_status", Progress(5, 0))),
      JDict(Rec2("crawl_progress", JWord("in_progress"), "crawl_status", JNull)),
      JDict(Rec1("crawl_progress", Progress(2, 0))),
      JDict(Rec1("page_metrics", JNull)) }

LinkSamples ==
    { JDict(Rec2("type", JWord("internal"), "is_broken", JBool(FALSE))),
      JDict(Rec2("type", JWord("external"), "is_broken", JBool(TRUE))) }

ItemsFor(to) ==
    CASE to = "get_page_issues" -> SeqsUpTo(RawPageSamples, MaxRawPages)
      [] to = "get_audit_status" -> SeqsUpTo(TaskSamples, MaxRawPages)
      [] to = "get_audit_summary" -> { <<r>> : r \in SummarySamples } \cup { <<JNull>> }
      [] to = "get_links_data" -> SeqsUpTo(LinkSamples, MaxRawPages)
      [] to = "start_onpage_audit" -> { <<t>> : t \in TaskSamples }

Responses(to) ==
    { Answer(to, k, <<>>) : k \in FailureKinds \cup {"null_task", "no_result"} }
    \cup { Answer(to, "ok", q) : q \in ItemsFor(to) }

Success(val) == [kind |-> "success", exc |-> "none", val |-> val]
Failure == [kind |-> "failure", exc |-> "none", val |-> <<>>]
Raised(exc) == [kind |-> "raised", exc |-> exc, val |-> <<>>]

\* data.get('status_code') == 20000 and data.get('tasks')
HasTasks(resp) == resp.kind \notin {"api_error", "empty_tasks"}

(***************************************************************************)
(* The client calls as functions of the credentials and the answer.  Each  *)
(* builds its headers with get_auth_header() inside its try block, and     *)
(* get_auth_header raises ValueError without credentials.                  *)
(***************************************************************************)
\* lines 58-88: `except Exception` after `except RequestException`
StartOnpageAudit(creds, resp) ==
    CASE ~creds -> Failure
      [] resp.kind = "http_error" -> Failure
      [] ~HasTasks(resp) -> Failure
      [] resp.kind = "null_task" -> Failure
      [] resp.kind = "ok" -> Success([task_id |-> Get(resp.items[1], "id")])
      [] OTHER -> Success([task_id |-> JNull])

\* lines 103-127: only RequestException is caught; the status code is not read
GetAuditStatus(creds, resp, task_id) ==
    CASE ~creds -> Raised("ValueError")
      [] resp.kind = "http_error" -> Failure
      [] ~HasTasks(resp) -> Success([ready |-> FALSE])
      [] resp.kind = "null_task" -> Raised("AttributeError")
      [] resp.kind = "null_result" -> Raised("TypeError")
      [] resp.kind = "ok" ->
           Success([ready |-> \E i \in 1..Len(resp.items) : Get(resp.items[i], "id") = task_id])
      [] OTHER -> Success([ready |-> FALSE])

\* lines 160-190 of get_audit_summary: the progress figures of result[0]
SummaryOf(item) ==
    LET res == IF item.t = "dict" THEN item ELSE EmptyDict
        cp == Get(res, "crawl_progress")
        stats == IF cp.t = "dict" THEN cp ELSE EmptyDict
        status == PyOr(Get(res, "crawl_status"), EmptyDict)
        from == IF Falsy(stats) THEN status ELSE stats
    IN [ crawl_progress |-> IF cp.t = "str" THEN cp.word
                            ELSE IF cp.t = "dict" THEN "in_progress" ELSE "unknown",
         pages_crawled |-> GetD(from, "pages_crawled", JInt(0)),
         pages_in_queue |-> GetD(from, "pages_in_queue", JInt(0)) ]

\* lines 142-226: only RequestException is caught
GetAuditSummary(creds, resp) ==
    CASE ~creds -> Raised("ValueError")
      [] resp.kind = "http_error" -> Failure
      [] ~HasTasks(resp) -> Failure
      [] resp.kind = "null_task" -> Raised("AttributeError")
      [] resp.kind = "ok" -> Success(SummaryOf(resp.items[1]))
      [] OTHER -> Success(SummaryOf(EmptyDict))

\* lines 249-485: only RequestException is caught;
\* result = data['tasks'][0].get('result', [{}])[0] or {}
GetPageIssues(creds, resp) ==
    CASE ~creds -> Raised("ValueError") @@ [pages |-> <<>>]
      [] resp.kind = "http_error" -> Failure @@ [pages |-> <<>>]
      [] ~HasTasks(resp) -> Failure @@ [pages |-> <<>>]
      [] resp.kind = "null_task" -> Raised("AttributeError") @@ [pages |-> <<>>]
      [] resp.kind = "null_result" -> Raised("TypeError") @@ [pages |-> <<>>]
      [] resp.kind = "empty_result" -> Raised("IndexError") @@ [pages |-> <<>>]
      [] resp.kind = "ok" /\ \E i \in 1..Len(resp.items) : PageRaises(resp.items[i]) ->
           Raised("AttributeError") @@ [pages |-> <<>>]
      [] resp.kind = "ok" -> Success(<<>>) @@ [pages |-> FormatPages(resp.items)]
      [] OTHER -> Success(<<>>) @@ [pages |-> <<>>]

\* lines 693-726: only RequestException is caught;
\* result = (data['tasks'][0].get('result') or [{}])[0] or {}
GetLinksData(creds, resp) ==
    CASE ~creds -> Raised("ValueError")
      [] resp.kind = "http_error" -> Failure
      [] ~HasTasks(resp) -> Failure
      [] resp.kind = "null_task" -> Raised("AttributeError")
      [] resp.kind = "ok" ->
           Success([total_links |-> Len(resp.items),
                    broken_count |-> CountIf(resp.items, LAMBDA l : ~Falsy(Get(l, "is_broken")))])
      [] OTHER -> Success([total_links |-> 0, broken_count |-> 0])

(***************************************************************************)
(* One client call: the request is answered (when the headers could be     *)
(* built), then the call returns or raises.                                *)
(***************************************************************************)
\* requests.post / requests.get returns or raises
ProviderAnswers ==
    /\ credentials
    /\ response.kind = "none"
    /\ \E to \in ClientCalls : response' \in Responses(to)
    /\ UNCHANGED <<nonClientVars, credentials, page_result, client_result>>

\* the answer a call works on: none was requested without credentials
Answered(fn) == IF credentials THEN response.to = fn ELSE response.kind = "none"

NotReturned == page_result.kind = "none" /\ client_result.kind = "none"

Returns(fn, outcome) ==
    /\ client_result' = [fn |-> fn] @@ outcome
    /\ UNCHANGED <<nonClientVars, credentials, response, page_result>>

start_onpage_audit ==
    /\ Answered("start_onpage_audit") /\ NotReturned
    /\ Returns("start_onpage_audit", StartOnpageAudit(credentials, response))

get_audit_status ==
    /\ Answered("get_audit_status") /\ NotReturned
    /\ Returns("get_audit_status", GetAuditStatus(credentials, response, TaskId))

get_audit_summary ==
    /\ Answered("get_audit_summary") /\ NotReturned
    /\ Returns("get_audit_summary", GetAuditSummary(credentials, response))

get_page_issues ==
    /\ Answered("get_page_issues") /\ NotReturned
    /\ page_result' = [k \in {"kind", "exc", "pages"} |-> GetPageIssues(credentials, response)[k]]
    /\ UNCHANGED <<nonClientVars, credentials, response, client_result>>

get_links_data ==
    /\ Answered("get_links_data") /\ NotReturned
    /\ Returns("get_links_data", GetLinksData(credentials, response))

InitPages ==
    /\ DeckIdle
    /\ StoreIdle
    /\ AnnotIdle
    /\ PollIdle
    /\ UploadIdle
    /\ credentials \in BOOLEAN
    /\ response = NoResponse
    /\ page_result = NoPageResult
    /\ client_result = NoClientResult

NextPages ==
    \/ ProviderAnswers
    \/ start_onpage_audit
    \/ get_audit_status
    \/ get_audit_summary
    \/ get_page_issues
    \/ get_links_data

SpecPages == InitPages /\ [][NextPages]_vars


(***************************************************************************)
(* The audit records (api/index.py).  A row of `projects` holds a domain   *)
(* and the blob full_audit_data: an object, or, after an inconsistent      *)
(* write, null or a JSON string.  Pages, keywords and results are tokens.  *)
(***************************************************************************)
\* a string holding JSON text; `parsed` is Missing when json.loads raises
JText(parsed) == [t |-> "str", len |-> 2, https |-> FALSE, parsed |-> parsed]

Row(domain, blob) == [live |-> TRUE, domain |-> domain, blob |-> blob]

\* mutant: the assignment leaves a dict that holds the assigned key alone
SetKeyAlone(d, k, v) == JDict([j \in {k} |-> v])

\* d[k] = v
SetKey(d, k, v) == JDict([j \in DOMAIN d.v \cup {k} |-> IF j = k THEN v ELSE d.v[j]])

\* if isinstance(x, str): try json.loads(x) except: {}
Loads(x) ==
    IF x.t = "str" THEN (IF x.parsed = Missing THEN EmptyDict ELSE x.parsed) ELSE x

Pending == JWord("pending")
Completed == JWord("completed")
Domain == JWord("example.com")

\* supabase.table('projects').select('*').eq('id', audit_id): result.data
Found(audit_id) == audit_id \in 1..Len(projects) /\ projects[audit_id].live

\* supabase.table('projects').update({'full_audit_data': blob}).eq('id', audit_id)
Update(audit_id, blob) ==
    IF Found(audit_id) THEN [projects EXCEPT ![audit_id].blob = blob] ELSE projects

\* the body of a 500 reply caused by a call to a provider
UpstreamError == JWord("upstream")

Reply(handler, code, audit_id, body) ==
    [handler |-> handler, code |-> code, audit_id |-> audit_id, body |-> body]

\* the identifiers a request may name: the rows, and one that was never stored
AuditIds == 0..Len(projects)

(***************************************************************************)
(* fetch_ranked_keywords (dataforseo_client.py, lines 1380-1411): the      *)
(* totals are the provider's metrics.organic when present; everything that *)
(* raises is turned into a failure                                         *)
(***************************************************************************)
KeywordAnswer(kind, items, has_metrics, count, etv) ==
    [kind |-> kind, items |-> items, has_metrics |-> has_metrics, count |-> count, etv |-> etv]

KeywordAnswers ==
    { KeywordAnswer("http_error", <<>>, FALSE, 0, 0),
      KeywordAnswer("ok", <<JInt(1)>>, TRUE, 5000, 50000),
      KeywordAnswer("ok", <<JInt(1), JInt(2)>>, FALSE, 0, 0) }

FetchRankedKeywords(answer) ==
    IF answer.kind # "ok" THEN Failure
    ELSE Success([ total_count |-> IF answer.has_metrics THEN answer.count ELSE Len(answer.items),
                   estimated_traffic |-> IF answer.has_metrics THEN answer.etv ELSE 0,
                   keywords |-> answer.items ])

\* keywords_data.get('keywords', []), .get('total_count', len(keywords)),
\* .get('estimated_traffic', 0)
KeywordsOf(kd) == IF kd.kind = "success" THEN kd.val.keywords ELSE <<>>
TotalCountOf(kd) == IF kd.kind = "success" THEN kd.val.total_count ELSE Len(KeywordsOf(kd))
TrafficOf(kd) == IF kd.kind = "success" THEN kd.val.estimated_traffic ELSE 0

(***************************************************************************)
(* create_new_audit, lines 124-211                                         *)
(***************************************************************************)
StartAnswers ==
    { Answer("start_onpage_audit", "http_error", <<>>) }
    \cup { Answer("start_onpage_audit", "ok", <<JDict(Rec1("id", JInt(n)))>>) : n \in 1..MaxAudits }

\* mutant: the record keeps no crawl task id
NewAuditDataWithoutTask(task_id, kd) ==
    JDict([k \in {"task_id", "domain", "status", "organic_keywords", "total_keywords",
                  "total_traffic", "backlinks_summary", "referring_domains"} |->
            CASE k = "task_id" -> JNull
              [] k = "domain" -> Domain
              [] k = "status" -> Pending
              [] k = "organic_keywords" -> JList(KeywordsOf(kd))
              [] k = "total_keywords" -> JInt(TotalCountOf(kd))
              [] k = "total_traffic" -> JInt(TrafficOf(kd))
              [] k = "backlinks_summary" -> EmptyDict
              [] k = "referring_domains" -> JList(<<>>)])

\* lines 173-186
NewAuditData(task_id, kd) ==
    JDict([k \in {"task_id", "domain", "status", "organic_keywords", "total_keywords",
                  "total_traffic", "backlinks_summary", "referring_domains"} |->
            CASE k = "task_id" -> task_id
              [] k = "domain" -> Domain
              [] k = "status" -> Pending
              [] k = "organic_keywords" -> JList(KeywordsOf(kd))
              [] k = "total_keywords" -> JInt(TotalCountOf(kd))
              [] k = "total_traffic" -> JInt(TrafficOf(kd))
              [] k = "backlinks_summary" -> EmptyDict
              [] k = "referring_domains" -> JList(<<>>)])

create_new_audit ==
    /\ handled < MaxOps
    /\ Len(projects) < MaxAudits
    /\ handled' = handled + 1
    /\ \E a \in StartAnswers, ka \in KeywordAnswers :
         LET audit_result == StartOnpageAudit(TRUE, a)
             audit_id == Len(projects) + 1
         IN IF audit_result.kind # "success"
            THEN /\ reply' = Reply("create_new_audit", 500, 0, <<>>)
                 /\ UNCHANGED projects
            ELSE /\ projects' = Append(projects,
                        Row(Domain, NewAuditData(audit_result.val.task_id, FetchRankedKeywords(ka))))
                 /\ reply' = Reply("create_new_audit", 200, audit_id,
                                   JDict(Rec1("task_id", audit_result.val.task_id)))
    /\ UNCHANGED <<nonStoreVars, inflight, written>>

(***************************************************************************)
(* save_audit_results, lines 214-309: the page fetch and the read of the   *)
(* record, then the PageSpeed calls, then the write                        *)
(***************************************************************************)
\* what get_page_issues(task_id, limit=200) gives: it raised, it reported a
\* failure, or it returned pages
PageFetches ==
    { Raised("TypeError"), Failure, Success(<<JInt(10)>>), Success(<<JInt(10), JInt(11)>>) }

\* project.get('full_audit_data', {}) or {}, then json.loads of a string
StoredAuditData(audit_id) == Loads(PyOr(projects[audit_id].blob, EmptyDict))

\* one write-back of a writer: update(...).eq('id', audit_id).execute()
Write(handler, audit_id) == [handler |-> handler, audit_id |-> audit_id]

Begin(handler, audit_id, snapshot) ==
    inflight' = [inflight EXCEPT ![handler] = [audit_id |-> audit_id] @@ snapshot]

Finish(handler) == inflight' = [inflight EXCEPT ![handler] = NotInFlight]

save_audit_results ==
    /\ handled < MaxOps
    /\ inflight["save_audit_results"] = NotInFlight
    /\ handled' = handled + 1
    /\ \E audit_id \in AuditIds, pages_data \in PageFetches :
         CASE pages_data.kind = "raised" ->
                /\ reply' = Reply("save_audit_results", 500, audit_id, UpstreamError)
                /\ UNCHANGED inflight
           [] pages_data.kind # "raised" /\ ~Found(audit_id) ->
                /\ reply' = Reply("save_audit_results", 404, audit_id, <<>>)
                /\ UNCHANGED inflight
           [] OTHER ->
                /\ Begin("save_audit_results", audit_id,
                         [audit_data |-> StoredAuditData(audit_id),
                          fetched |-> pages_data.kind = "success",
                          pages |-> IF pages_data.kind = "success" THEN pages_data.val ELSE <<>>])
                /\ UNCHANGED reply
    /\ UNCHANGED <<nonStoreVars, projects, written>>

\* fetch_pagespeed_scores(url, strategy): None or a failure, or scores
SpeedScores(n) ==
    JDict(Rec2("success", JBool(TRUE), "scores", JDict(Rec1("performance", JInt(n)))))

SpeedResults ==
    { JNull, JDict(Rec2("success", JBool(FALSE), "error", JWord("timeout"))),
      SpeedScores(40), SpeedScores(95) }

\* lines 254-281: pagespeed as save_audit_results builds it
SavedPageSpeed(mobile_result) ==
    IF Falsy(mobile_result) THEN EmptyDict
    ELSE JDict([k \in {"mobile", "scores"} |->
                 IF k = "mobile" THEN JDict(Rec1("scores", GetD(mobile_result, "scores", EmptyDict)))
                 ELSE GetD(mobile_result, "scores", EmptyDict)])

\* lines 288-304
save_audit_results_update ==
    /\ inflight["save_audit_results"] # NotInFlight
    /\ \E mobile_result \in SpeedResults :
         LET mine == inflight["save_audit_results"]
             audit_data == SetKey(SetKey(SetKey(mine.audit_data, "pages", JList(mine.pages)),
                                         "pagespeed", SavedPageSpeed(mobile_result)),
                                  "status", Completed)
         IN /\ projects' = Update(mine.audit_id, audit_data)
            /\ written' = Append(written, Write("save_audit_results", mine.audit_id))
            /\ reply' = Reply("save_audit_results", 200, mine.audit_id, <<>>)
    /\ Finish("save_audit_results")
    /\ UNCHANGED <<nonStoreVars, handled>>

(***************************************************************************)
(* get_audit_detail_endpoint, lines 369-445                                *)
(***************************************************************************)
\* mutant: the audit object is built without the stored fields
AuditDetailWithoutStoredFields(audit_data, fresh) ==
    JDict([k \in {"keywords", "pages"} |->
            IF k = "keywords" THEN GetD(audit_data, "organic_keywords", JList(<<>>))
            ELSE GetD(audit_data, "pages", JList(<<>>))])

\* lines 394-437: {**audit_data, 'keywords': ..., 'pages': ..., 'total_traffic': ...,
\* 'total_keywords': ...}; `fresh` is the re-fetch made when no traffic is stored
AuditDetail(audit_data, fresh) ==
    LET keywords == GetD(audit_data, "organic_keywords", JList(<<>>))
        stored_traffic == GetD(audit_data, "total_traffic", JInt(0))
        stored_count == GetD(audit_data, "total_keywords", JInt(0))
        refetched == Falsy(stored_traffic) /\ fresh.kind = "success"
        traffic == IF refetched THEN JInt(fresh.val.estimated_traffic) ELSE stored_traffic
        count == IF refetched THEN JInt(fresh.val.total_count) ELSE stored_count
        shown == [k \in {"keywords", "pages", "total_traffic", "total_keywords"} |->
                    CASE k = "keywords" -> keywords
                      [] k = "pages" -> GetD(audit_data, "pages", JList(<<>>))
                      [] k = "total_traffic" -> traffic
                      [] k = "total_keywords" ->
                           IF Falsy(count) THEN JInt(PyLen(keywords)) ELSE count]
    IN JDict([k \in DOMAIN audit_data.v \cup DOMAIN shown |->
               IF k \in DOMAIN shown THEN shown[k] ELSE audit_data.v[k]])

get_audit_detail_endpoint ==
    /\ handled < MaxOps
    /\ handled' = handled + 1
    /\ \E audit_id \in AuditIds, ka \in KeywordAnswers :
         IF ~Found(audit_id)
         THEN reply' = Reply("get_audit_detail_endpoint", 404, audit_id, <<>>)
         ELSE LET loaded == StoredAuditData(audit_id)
                  audit_data == IF loaded.t = "dict" THEN loaded ELSE EmptyDict
              IN reply' = Reply("get_audit_detail_endpoint", 200, audit_id,
                                AuditDetail(audit_data, FetchRankedKeywords(ka)))
    /\ UNCHANGED <<nonStoreVars, projects, inflight, written>>

(***************************************************************************)
(* delete_audit_endpoint, lines 448-460                                    *)
(***************************************************************************)
delete_audit_endpoint ==
    /\ handled < MaxOps
    /\ handled' = handled + 1
    /\ \E audit_id \in AuditIds :
         /\ projects' = IF Found(audit_id) THEN [projects EXCEPT ![audit_id].live = FALSE]
                        ELSE projects
         /\ reply' = Reply("delete_audit_endpoint", 200, audit_id, <<>>)
    /\ UNCHANGED <<nonStoreVars, inflight, written>>

(***************************************************************************)
(* get_deep_audit_results, lines 463-507                                   *)
(***************************************************************************)
\* lines 479-483: the first row whose blob names the task; 0 when there is
\* none, -1 when a blob on the way is a string (audit_data.get raises)
RECURSIVE FindByTask(_, _)
FindByTask(i, task_id) ==
    IF i > Len(projects) THEN 0
    ELSE IF ~projects[i].live THEN FindByTask(i + 1, task_id)
    ELSE LET audit_data == PyOr(projects[i].blob, EmptyDict)
         IN IF audit_data.t # "dict" THEN -1
            ELSE IF Get(audit_data, "task_id") = task_id THEN i
            ELSE FindByTask(i + 1, task_id)

\* what get_audit_summary(task_id) gives
SummaryFetches ==
    { Raised("ValueError"), Failure, Success(SummaryOf(JDict(Rec1("crawl_progress", JWord("finished"))))) }

get_deep_audit_results ==
    /\ handled < MaxOps
    /\ handled' = handled + 1
    /\ \E n \in 1..MaxAudits, results \in SummaryFetches :
         LET target == FindByTask(1, JInt(n))
             existing == PyOr(projects[target].blob, EmptyDict)
         IN CASE results.kind # "success" ->
                   /\ reply' = Reply("get_deep_audit_results", 500, 0, UpstreamError)
                   /\ UNCHANGED projects
              [] results.kind = "success" /\ target = -1 ->
                   /\ reply' = Reply("get_deep_audit_results", 500, 0, JWord("AttributeError"))
                   /\ UNCHANGED projects
              [] results.kind = "success" /\ target = 0 ->
                   /\ reply' = Reply("get_deep_audit_results", 200, 0, <<>>)
                   /\ UNCHANGED projects
              [] OTHER ->
                   /\ projects' = Update(target,
                          SetKey(SetKey(SetKey(existing, "status", Completed),
                                        "pages", JList(<<>>)),
                                 "summary", JDict(Rec1("crawl_progress", JWord(results.val.crawl_progress)))))
                   /\ reply' = Reply("get_deep_audit_results", 200, target, <<>>)
    /\ UNCHANGED <<nonStoreVars, inflight, written>>

(***************************************************************************)
(* generate_deep_audit_slides called with a project_id, lines 539-561:     *)
(* the record is read and handed to the deck assembler; nothing is written *)
(***************************************************************************)
generate_deep_audit_slides ==
    /\ handled < MaxOps
    /\ handled' = handled + 1
    /\ \E project_id \in AuditIds :
         IF ~Found(project_id)
         THEN reply' = Reply("generate_deep_audit_slides", 400, project_id, <<>>)
         ELSE reply' = Reply("generate_deep_audit_slides", 200, project_id,
                             SetKey(StoredAuditData(project_id), "domain", projects[project_id].domain))
    /\ UNCHANGED <<nonStoreVars, projects, inflight, written>>

(***************************************************************************)
(* analyze_readability, lines 719-973: the read and the candidate          *)
(* selection, then the page analysis, then the write                       *)
(***************************************************************************)
ReadabilityResults == JList(<<JInt(8)>>)

analyze_readability ==
    /\ handled < MaxOps
    /\ inflight["analyze_readability"] = NotInFlight
    /\ handled' = handled + 1
    /\ \E audit_id \in AuditIds, refresh \in BOOLEAN :
         IF ~Found(audit_id)
         THEN /\ reply' = Reply("analyze_readability", 404, audit_id, <<>>)
              /\ UNCHANGED inflight
         ELSE LET audit_data == StoredAuditData(audit_id)
                  cached == Get(audit_data, "readability_results")
                  candidates == ~Falsy(GetD(audit_data, "pages", JList(<<>>)))
                                \/ ~Falsy(GetD(audit_data, "organic_keywords", JList(<<>>)))
              IN CASE ~Falsy(cached) /\ ~refresh ->
                        /\ reply' = Reply("analyze_readability", 200, audit_id, cached)
                        /\ UNCHANGED inflight
                   [] (Falsy(cached) \/ refresh) /\ ~candidates ->
                        /\ reply' = Reply("analyze_readability", 200, audit_id, JList(<<>>))
                        /\ UNCHANGED inflight
                   [] OTHER ->
                        /\ Begin("analyze_readability", audit_id, [audit_data |-> audit_data])
                        /\ UNCHANGED reply
    /\ UNCHANGED <<nonStoreVars, projects, written>>

\* lines 885-969: the pages could be analysed, and the results are saved, or not
analyze_readability_update ==
    /\ inflight["analyze_readability"] # NotInFlight
    /\ LET mine == inflight["analyze_readability"]
       IN \E analysed \in BOOLEAN :
            IF analysed
            THEN /\ projects' = Update(mine.audit_id,
                        SetKey(mine.audit_data, "readability_results", ReadabilityResults))
                 /\ written' = Append(written, Write("analyze_readability", mine.audit_id))
                 /\ reply' = Reply("analyze_readability", 200, mine.audit_id, ReadabilityResults)
            ELSE /\ reply' = Reply("analyze_readability", 200, mine.audit_id, JBool(FALSE))
                 /\ UNCHANGED <<projects, written>>
    /\ Finish("analyze_readability")
    /\ UNCHANGED <<nonStoreVars, handled>>

(***************************************************************************)
(* refresh_speed, lines 976-1052: the read, then the PageSpeed calls, then *)
(* the write                                                               *)
(***************************************************************************)
refresh_speed ==
    /\ handled < MaxOps
    /\ inflight["refresh_speed"] = NotInFlight
    /\ handled' = handled + 1
    /\ \E audit_id \in AuditIds :
         IF ~Found(audit_id)
         THEN /\ reply' = Reply("refresh_speed", 404, audit_id, <<>>)
              /\ UNCHANGED inflight
         ELSE /\ Begin("refresh_speed", audit_id,
                       [audit_data |-> Loads(projects[audit_id].blob)])
              /\ UNCHANGED reply
    /\ UNCHANGED <<nonStoreVars, projects, written>>

\* mobile_result_valid(res)
SpeedValid(res) ==
    ~Falsy(res) /\ ~Falsy(Get(res, "success")) /\ ~Falsy(Get(res, "scores"))

\* lines 1006-1034: pagespeed_data holds the url and each valid result
RefreshedPageSpeed(mobile_res, desktop_res) ==
    DictOf([k \in {"url", "mobile", "desktop"} |->
             CASE k = "url" -> Domain
               [] k = "mobile" -> IF SpeedValid(mobile_res) THEN mobile_res ELSE Missing
               [] k = "desktop" -> IF SpeedValid(desktop_res) THEN desktop_res ELSE Missing])

\* mutant: the write assigns pagespeed in the record as it is at the time of the write
refresh_speed_update_rereading ==
    /\ inflight["refresh_speed"] # NotInFlight
    /\ LET mine == inflight["refresh_speed"]
       IN \E mobile_res \in SpeedResults, desktop_res \in {JNull, SpeedScores(95)} :
            CASE ~SpeedValid(mobile_res) /\ ~SpeedValid(desktop_res) ->
                   /\ reply' = Reply("refresh_speed", 500, mine.audit_id, UpstreamError)
                   /\ UNCHANGED <<projects, written>>
              [] (SpeedValid(mobile_res) \/ SpeedValid(desktop_res))
                 /\ (mine.audit_data.t # "dict" \/ ~Found(mine.audit_id)) ->
                   /\ reply' = Reply("refresh_speed", 500, mine.audit_id, JWord("TypeError"))
                   /\ UNCHANGED <<projects, written>>
              [] OTHER ->
                   /\ projects' = Update(mine.audit_id,
                          SetKey(StoredAuditData(mine.audit_id), "pagespeed",
                                 RefreshedPageSpeed(mobile_res, desktop_res)))
                   /\ written' = Append(written, Write("refresh_speed", mine.audit_id))
                   /\ reply' = Reply("refresh_speed", 200, mine.audit_id, <<>>)
    /\ Finish("refresh_speed")
    /\ UNCHANGED <<nonStoreVars, handled>>

\* lines 1006-1052: full_audit_data['pagespeed'] = pagespeed_data raises when
\* the blob read was null
refresh_speed_update ==
    /\ inflight["refresh_speed"] # NotInFlight
    /\ LET mine == inflight["refresh_speed"]
       IN \E mobile_res \in SpeedResults, desktop_res \in {JNull, SpeedScores(95)} :
            CASE ~SpeedValid(mobile_res) /\ ~SpeedValid(desktop_res) ->
                   /\ reply' = Reply("refresh_speed", 500, mine.audit_id, UpstreamError)
                   /\ UNCHANGED <<projects, written>>
              [] (SpeedValid(mobile_res) \/ SpeedValid(desktop_res)) /\ mine.audit_data.t # "dict" ->
                   /\ reply' = Reply("refresh_speed", 500, mine.audit_id, JWord("TypeError"))
                   /\ UNCHANGED <<projects, written>>
              [] OTHER ->
                   /\ projects' = Update(mine.audit_id,
                          SetKey(mine.audit_data, "pagespeed",
                                 RefreshedPageSpeed(mobile_res, desktop_res)))
                   /\ written' = Append(written, Write("refresh_speed", mine.audit_id))
                   /\ reply' = Reply("refresh_speed", 200, mine.audit_id, <<>>)
    /\ Finish("refresh_speed")
    /\ UNCHANGED <<nonStoreVars, handled>>

(***************************************************************************)
(* The table at the start: empty, or holding one row left by an earlier    *)
(* write whose blob is null, a JSON string or an object                    *)
(***************************************************************************)
LegacyBlobs ==
    { JNull, JText(Missing),
      JText(JDict(Rec2("task_id", JInt(1), "status", Pending))),
      JDict(Rec2("task_id", JInt(1), "status", Pending)) }

InitStore ==
    /\ DeckIdle
    /\ ClientIdle
    /\ AnnotIdle
    /\ PollIdle
    /\ UploadIdle
    /\ projects \in { <<>> } \cup { <<Row(Domain, b)>> : b \in LegacyBlobs }
    /\ inflight = [h \in Writers |-> NotInFlight]
    /\ reply = NoReply
    /\ handled = 0
    /\ written = <<>>

NextStore ==
    \/ create_new_audit
    \/ save_audit_results
    \/ save_audit_results_update
    \/ get_audit_detail_endpoint
    \/ delete_audit_endpoint
    \/ get_deep_audit_results
    \/ generate_deep_audit_slides
    \/ analyze_readability
    \/ analyze_readability_update
    \/ refresh_speed
    \/ refresh_speed_update

SpecStore == InitStore /\ [][NextStore]_vars


(***************************************************************************)
(* The annotation helpers (api/deep_audit_slides.py, lines 76-145).  A     *)
(* figure is an integer or None; the returned string is a mark (the emoji  *)
(* it starts with) followed by the label.                                  *)
(***************************************************************************)
Annotation(fn, mark, label) == [fn |-> fn, mark |-> mark, label |-> label]

\* x or 0
OrZero(x) == IF Falsy(x) THEN 0 ELSE x.v

\* lines 78-86
get_traffic_annotation(traffic) ==
    LET t == OrZero(traffic)
    IN IF t >= 50000 THEN Annotation("get_traffic_annotation", "check", "Strong Organic Traffic")
       ELSE IF t >= 20000 THEN Annotation("get_traffic_annotation", "chart", "Good Traffic Growth")
       ELSE Annotation("get_traffic_annotation", "red", "Low Organic Traffic")

\* mutant: the needs-work count is not consulted
TrafficAnnotationFromTrafficAlone(traffic, needs_work) ==
    [get_traffic_annotation(traffic) EXCEPT !.fn = "get_traffic_annotation_with_needs_work"]

\* lines 88-102
get_traffic_annotation_with_needs_work(traffic, needs_work) ==
    LET t == OrZero(traffic)
        n == OrZero(needs_work)
    IN IF t < 20000
       THEN Annotation("get_traffic_annotation_with_needs_work", "red", "Low Organic Traffic")
       ELSE IF n > 20
       THEN Annotation("get_traffic_annotation_with_needs_work", "chart", "Many keywords need work")
       ELSE Annotation("get_traffic_annotation_with_needs_work", "check", "Strong Organic Traffic")

\* mutant: both conditions are required
KeywordsAnnotationNeedingBoth(count, needs_work) ==
    IF OrZero(needs_work) > 50 /\ OrZero(count) >= 100
    THEN Annotation("get_keywords_annotation", "chart", "Has potential for more visitors")
    ELSE Annotation("get_keywords_annotation", "warning", "Limited Keywords")

\* lines 104-115
get_keywords_annotation(count, needs_work) ==
    LET c == OrZero(count)
        n == OrZero(needs_work)
    IN IF n > 50 \/ c >= 100
       THEN Annotation("get_keywords_annotation", "chart", "Has potential for more visitors")
       ELSE Annotation("get_keywords_annotation", "warning", "Limited Keywords")

\* mutant: a domain with spam backlinks is reported as such whatever its count
BacklinksAnnotationFromSpam(referring_domains, high_spam) ==
    IF OrZero(referring_domains) < 100 /\ OrZero(high_spam) = 0
    THEN Annotation("get_backlinks_annotation", "warning", "Needs Link Building")
    ELSE Annotation("get_backlinks_annotation", "red", "Many High Spam Backlinks")

\* lines 117-126
get_backlinks_annotation(referring_domains, high_spam) ==
    IF OrZero(referring_domains) < 100
    THEN Annotation("get_backlinks_annotation", "warning", "Needs Link Building")
    ELSE Annotation("get_backlinks_annotation", "red", "Many High Spam Backlinks")

\* mutant: a score of exactly 90 is not yet excellent
SpeedAnnotationAbove90(score) ==
    LET sc == OrZero(score)
    IN IF sc > 90 THEN Annotation("get_speed_annotation", "check", "Excellent Speed")
       ELSE IF sc >= 50 THEN Annotation("get_speed_annotation", "warning", "Needs Optimization")
       ELSE Annotation("get_speed_annotation", "red", "Poor Performance")

\* lines 129-137
get_speed_annotation(score) ==
    LET sc == OrZero(score)
    IN IF sc >= 90 THEN Annotation("get_speed_annotation", "check", "Excellent Speed")
       ELSE IF sc >= 50 THEN Annotation("get_speed_annotation", "warning", "Needs Optimization")
       ELSE Annotation("get_speed_annotation", "red", "Poor Performance")

RECURSIVE SumGrades(_)
SumGrades(grades) == IF grades = <<>> THEN 0 ELSE Head(grades) + SumGrades(Tail(grades))

\* lines 441-446: avg_grade = sum(grades) / len(grades) if grades else 0, kept
\* as the fraction num / den of tenths of a grade
AverageGrade(grades) ==
    IF grades = <<>> THEN [num |-> 0, den |-> 1]
    ELSE [num |-> SumGrades(grades), den |-> Len(grades)]

\* mutant: an average of exactly 9 is already poor
ReadabilityAnnotationFrom9(grade) ==
    IF grade.num >= 90 * grade.den
    THEN Annotation("get_readability_annotation", "red", "Poor Page Readability")
    ELSE Annotation("get_readability_annotation", "check", "Content Readability is Apt")

\* lines 139-145: grade = grade or 0; grade > 9
get_readability_annotation(grade) ==
    IF grade.num > 90 * grade.den
    THEN Annotation("get_readability_annotation", "red", "Poor Page Readability")
    ELSE Annotation("get_readability_annotation", "check", "Content Readability is Apt")

(***************************************************************************)
(* format_number, lines 157-166.  The text returned is kept as its parts:  *)
(* the digits before the point, the digit after it (-1 when there is no    *)
(* point) and the suffix.                                                  *)
(***************************************************************************)
Rendering(whole, tenth, suffix) ==
    [fn |-> "format_number", whole |-> whole, tenth |-> tenth, suffix |-> suffix]

\* f"{n/unit:.1f}": the quotient is a binary floating-point number and its
\* decimal text is the nearest tenth; a quotient that lies exactly halfway
\* (a multiple of 0.25 is exact in binary) goes to the even tenth
Tenths(n, unit) ==
    LET q == (n * 10) \div unit
        r == (n * 10) % unit
    IN IF 2 * r < unit THEN q
       ELSE IF 2 * r > unit THEN q + 1
       ELSE IF q % 2 = 0 THEN q ELSE q + 1

OneDecimal(n, unit, suffix) ==
    Rendering(Tenths(n, unit) \div 10, Tenths(n, unit) % 10, suffix)

format_number(n) ==
    IF n = JNull THEN Rendering(0, -1, "")
    ELSE IF n.v >= 1000000 THEN OneDecimal(n.v, 1000000, "M")
    ELSE IF n.v >= 1000 THEN OneDecimal(n.v, 1000, "K")
    ELSE Rendering(n.v, -1, "")

\* the figures the helpers are called with: None, and values on both sides of
\* every threshold
Figures(values) == {JNull} \cup { JInt(n) : n \in values }

\* a call's figures: the ones given, None for the others, no readability results
Metrics(given) ==
    given @@ [k \in DOMAIN NoMetrics |-> IF k = "grades" THEN <<>> ELSE JNull]

\* flesch_kincaid_grade of the analysed pages, in tenths of a grade
GradeSamples == { <<>>, <<0>>, <<90>>, <<91>>, <<120>>, <<80, 100>>, <<85, 96>>, <<60, 70>> }

\* the numbers format_number is given; no quotient by 1,000 or 1,000,000 lies
\* halfway between two tenths unless it is a multiple of 0.25
NumberSamples ==
    Figures({0, 7, 999, 1000, 1250, 1500, 18500, 18540, 18560, 999949, 1000000, 1250000,
             1500000, 1750000, 2440000, 2460000})

MetricsSamples ==
    { Metrics(m) : m \in [ traffic : Figures({0, 15000, 19999, 20000, 25000, 50000}),
                           needs_work_count : Figures({0, 5, 20, 21, 25, 50, 51}),
                           count : Figures({0, 99, 100, 5000}) ] }
    \cup { Metrics(m) : m \in [ referring_domains : Figures({0, 50, 99, 100, 150}),
                                high_spam_count : Figures({0, 3, 500}) ] }
    \cup { Metrics(m) : m \in [ score : Figures({0, 49, 50, 89, 90, 100}) ] }
    \cup { Metrics(m) : m \in [ grades : GradeSamples ] }
    \cup { Metrics(m) : m \in [ n : NumberSamples ] }

TrafficAnnotation ==
    /\ annotation = NoAnnotation
    /\ annotation' = get_traffic_annotation_with_needs_work(metrics.traffic, metrics.needs_work_count)
    /\ UNCHANGED <<nonAnnotVars, metrics, rendering>>

KeywordsAnnotation ==
    /\ annotation = NoAnnotation
    /\ annotation' = get_keywords_annotation(metrics.count, metrics.needs_work_count)
    /\ UNCHANGED <<nonAnnotVars, metrics, rendering>>

BacklinksAnnotation ==
    /\ annotation = NoAnnotation
    /\ annotation' = get_backlinks_annotation(metrics.referring_domains, metrics.high_spam_count)
    /\ UNCHANGED <<nonAnnotVars, metrics, rendering>>

SpeedAnnotation ==
    /\ annotation = NoAnnotation
    /\ annotation' = get_speed_annotation(metrics.score)
    /\ UNCHANGED <<nonAnnotVars, metrics, rendering>>

\* deep_audit_slides.py, lines 439-448
ReadabilityAnnotation ==
    /\ annotation = NoAnnotation
    /\ annotation' = get_readability_annotation(AverageGrade(metrics.grades))
    /\ UNCHANGED <<nonAnnotVars, metrics, rendering>>

FormatNumber ==
    /\ rendering = NoRendering
    /\ rendering' = format_number(metrics.n)
    /\ UNCHANGED <<nonAnnotVars, metrics, annotation>>

InitAnnot ==
    /\ DeckIdle
    /\ ClientIdle
    /\ StoreIdle
    /\ PollIdle
    /\ UploadIdle
    /\ metrics \in MetricsSamples
    /\ annotation = NoAnnotation
    /\ rendering = NoRendering

NextAnnot ==
    \/ TrafficAnnotation
    \/ KeywordsAnnotation
    \/ BacklinksAnnotation
    \/ SpeedAnnotation
    \/ ReadabilityAnnotation
    \/ FormatNumber

SpecAnnot == InitAnnot /\ [][NextAnnot]_vars


(***************************************************************************)
(* run_full_site_audit (api/dataforseo_client.py, lines 1072-1190): the    *)
(* crawl is submitted, the summary is polled, then the data is collected.  *)
(***************************************************************************)
max_wait == 1800
poll_interval == 10

\* lines 1124-1131: the poll says that the crawl is over
CrawlOver(summary, waited_now) ==
    \/ summary.crawl_progress = "finished"
    \/ /\ OrZero(summary.pages_in_queue) = 0
       /\ OrZero(summary.pages_crawled) > 0
       /\ waited_now > 30

\* lines 1089-1106
run_full_site_audit ==
    /\ poll_pc = "idle"
    /\ \E a \in StartAnswers :
         LET start_result == StartOnpageAudit(TRUE, a)
         IN IF start_result.kind # "success" \/ Falsy(start_result.val.task_id)
            THEN /\ poll_pc' = "returned"
                 /\ site_audit' = [kind |-> "start_failed", success |-> FALSE]
            ELSE /\ poll_pc' = "polling"
                 /\ UNCHANGED site_audit
    /\ UNCHANGED <<nonPollVars, waited, polls>>

\* lines 1108-1134, one turn of the loop: sleep, poll, and leave the loop when
\* the crawl is over or the ceiling is reached.  get_audit_summary catches
\* only a failed request; what else it raises leaves the function.
Poll ==
    /\ poll_pc = "polling"
    /\ waited < max_wait
    /\ waited' = waited + poll_interval
    /\ polls' = polls + 1
    /\ \E resp \in Responses("get_audit_summary") :
         LET summary_result == GetAuditSummary(TRUE, resp)
         IN CASE summary_result.kind = "raised" ->
                   /\ poll_pc' = "raised"
                   /\ site_audit' = [kind |-> summary_result.exc, success |-> FALSE]
              [] summary_result.kind = "success" /\ CrawlOver(summary_result.val, waited') ->
                   /\ poll_pc' = "collecting"
                   /\ UNCHANGED site_audit
              [] OTHER ->
                   /\ poll_pc' = IF waited' < max_wait THEN "polling" ELSE "collecting"
                   /\ UNCHANGED site_audit
    /\ UNCHANGED nonPollVars

\* every kind of answer of the provider, with an empty list of items
BareAnswers(to) == { r \in Responses(to) : r.items = <<>> }

\* lines 1136-1190: the summary, the pages and the links are fetched again;
\* result["success"] is True whatever they answer, unless one of them raises
Collect ==
    /\ poll_pc = "collecting"
    /\ \E rs \in BareAnswers("get_audit_summary"), rp \in BareAnswers("get_page_issues"),
          rl \in BareAnswers("get_links_data") :
         LET summary_data == GetAuditSummary(TRUE, rs)
             pages == GetPageIssues(TRUE, rp)
             links == GetLinksData(TRUE, rl)
         IN CASE summary_data.kind = "raised" ->
                   /\ poll_pc' = "raised"
                   /\ site_audit' = [kind |-> summary_data.exc, success |-> FALSE]
              [] summary_data.kind # "raised" /\ pages.kind = "raised" ->
                   /\ poll_pc' = "raised"
                   /\ site_audit' = [kind |-> pages.exc, success |-> FALSE]
              [] summary_data.kind # "raised" /\ pages.kind # "raised" /\ links.kind = "raised" ->
                   /\ poll_pc' = "raised"
                   /\ site_audit' = [kind |-> links.exc, success |-> FALSE]
              [] OTHER ->
                   /\ poll_pc' = "returned"
                   /\ site_audit' = [kind |-> "result", success |-> TRUE]
    /\ UNCHANGED <<nonPollVars, waited, polls>>

InitPoll ==
    /\ DeckIdle
    /\ ClientIdle
    /\ StoreIdle
    /\ AnnotIdle
    /\ PollIdle
    /\ UploadIdle

NextPoll ==
    \/ run_full_site_audit
    \/ Poll
    \/ Collect

SpecPoll == InitPoll /\ [][NextPoll]_vars

\* the function runs on: a started call takes its next step
FairSpecPoll == SpecPoll /\ WF_vars(NextPoll)


(***************************************************************************)
(* generate_deep_audit_slides, the screenshot upload (api/index.py, lines  *)
(* 595-670).  A supplied value is told apart by what the code tests: it is *)
(* a string or not, it starts with 'http' or not, it has fewer than 100    *)
(* characters or not.                                                      *)
(***************************************************************************)
ImageKinds == {"absent", "not_str", "url_short", "url_long", "data_short", "data_long"}

IsUrl(kind) == kind \in {"url_short", "url_long"}

\* lines 606-607: not hp or len(str(hp)) < 100
HomepageMissing(kind) == kind \notin {"url_long", "data_long"}

\* lines 604-615: the homepage is captured by the backend when it is missing;
\* capture_screenshot_with_fallback returns a data URI or None
WithHomepageFallback(request, captured) ==
    IF HomepageMissing(request.screenshots["homepage"]) /\ request.domain_known /\ captured
    THEN [request.screenshots EXCEPT !["homepage"] = "data_long"]
    ELSE request.screenshots

\* lines 631-663, one turn of the loop: the key gets a value in the image map
Kept(kind, upload_ok) ==
    CASE kind \in {"absent", "not_str"} -> FALSE
      [] IsUrl(kind) -> TRUE
      [] OTHER -> upload_ok

\* lines 595-670
UploadScreenshots ==
    /\ ~processed_screenshots.done
    /\ \E captured \in BOOLEAN, upload_ok \in [UploadKeys -> BOOLEAN] :
         LET screenshots_now ==
                 IF payload.is_dict THEN WithHomepageFallback(payload, captured)
                 ELSE WithHomepageFallback([payload EXCEPT !.screenshots = NoPayload.screenshots],
                                           captured)
         IN /\ processed_screenshots' =
                  [done |-> TRUE,
                   keys |-> { k \in UploadKeys : Kept(screenshots_now[k], upload_ok[k]) }]
            /\ uploaded' = [k \in UploadKeys |->
                              /\ screenshots_now[k] \in {"data_short", "data_long"}
                              /\ upload_ok[k]]
    /\ UNCHANGED <<nonUploadVars, payload>>

InitUpload ==
    /\ DeckIdle
    /\ ClientIdle
    /\ StoreIdle
    /\ AnnotIdle
    /\ PollIdle
    /\ payload \in [domain_known : BOOLEAN, is_dict : BOOLEAN,
                    screenshots : [UploadKeys -> ImageKinds]]
    /\ uploaded = [k \in UploadKeys |-> FALSE]
    /\ processed_screenshots = NotProcessed

NextUpload == UploadScreenshots

SpecUpload == InitUpload /\ [][NextUpload]_vars


(***************************************************************************)
(* Reading the built batch                                                 *)
(***************************************************************************)
\* the units have all been appended to the batch, which is about to be submitted
Built == pc = "assembled"

\* the slide identifiers of the createSlide operations, in batch order
SlideIds ==
    LET created == SelectSeq(requests, LAMBDA o : o.op = "createSlide")
    IN [i \in 1..Len(created) |-> created[i].sid]

Emitted(sid) == \E i \in 1..Len(SlideIds) : SlideIds[i] = sid

NoImageSupplied == \A k \in ImageKeys : ~HasImage(screenshots, k)

\* the figures carried by the text of one element of one unit
TextOf(sid, suffix) ==
    LET ops == SelectSeq(requests,
                         LAMBDA o : o.op = "insertText" /\ o.sid = sid /\ o.suffix = suffix)
    IN ops[1].text

C2_DataSlideNeverOmitted ==
    Built => \A sid \in {"data_overview", "data_keywords", "data_meta", "data_headings",
                         "data_content", "data_speed"} : Emitted(sid)

CanonicalOrder ==
    << "cover", "homepage", "expl_organic", "data_overview", "data_keywords",
       "expl_meta", "data_meta", "expl_headings", "data_headings",
       "expl_backlinks", "data_backlinks", "expl_content", "data_content",
       "expl_speed", "data_speed", "thank_you" >>

Rank(sid) == CHOOSE i \in 1..Len(CanonicalOrder) : CanonicalOrder[i] = sid

\* C3: for every combination of images the slides of the batch follow one fixed
\* order: cover first, then the optional homepage snapshot, then the sections
\* organic, meta, headings, backlinks, content, speed, each explainer before its
\* section's data slides, thank-you last; no slide twice, none out of order, and the
\* operations of one unit are contiguous.
C3_FixedLinearOrder ==
    Built =>
      /\ \A i \in 1..Len(SlideIds) : \E j \in 1..Len(CanonicalOrder) : CanonicalOrder[j] = SlideIds[i]
      /\ \A i \in 1..(Len(SlideIds) - 1) : Rank(SlideIds[i]) < Rank(SlideIds[i + 1])
      /\ SlideIds[1] = "cover"
      /\ SlideIds[Len(SlideIds)] = "thank_you"
      /\ \A e \in {"expl_organic", "expl_meta", "expl_headings", "expl_backlinks",
                   "expl_content", "expl_speed"} : Emitted(e)
      /\ \A i \in 1..(Len(requests) - 1) :
           requests[i].op # "deleteObject" =>
              Rank(requests[i].sid) <= Rank(requests[i + 1].sid)

C3_Witness ==
    /\ Built
    /\ Emitted("homepage") /\ Emitted("data_backlinks")
    /\ ~Emitted("data_headings")
    /\ Len(SlideIds) = 15

\* C4: the homepage snapshot is in the batch exactly when the image map holds a
\* non-empty 'homepage' image, and the backlinks data slide exactly when it holds a
\* non-empty 'backlinks' image, whatever the other inputs.
C4_ImageGatedUnits ==
    Built =>
      /\ Emitted("homepage") <=> screenshots["homepage"] = "url"
      /\ Emitted("data_backlinks") <=> screenshots["backlinks"] = "url"

C4_Witness ==
    /\ Built
    /\ screenshots["homepage"] = "empty" /\ ~Emitted("homepage")
    /\ screenshots["backlinks"] = "url" /\ Emitted("data_backlinks")
    /\ data.pages # <<>>


CallNames == [i \in 1..Len(calls) |-> calls[i].call]

IsPrefix(p, q) == Len(p) <= Len(q) /\ \A i \in 1..Len(p) : p[i] = q[i]

\* C5: one call performs create-document, one batch-update carrying the operations
\* of all units, set-permission and the return in this order, each at most once and
\* each only after the one before it succeeded; a returned call has performed all
\* three, and the batch-update is issued only once every unit has been assembled.
C5_CallOrder ==
    /\ IsPrefix(CallNames, <<"create", "batchUpdate", "permission">>)
    /\ \A i \in 1..Len(calls) : i < Len(calls) => calls[i].ok
    /\ (Len(calls) >= 2) =>
         /\ submitted = requests
         /\ submitted[Len(submitted)].sid = "thank_you"
         /\ \E i \in 1..Len(submitted) :
              submitted[i].op = "createSlide" /\ submitted[i].sid = "cover"
    /\ (Len(calls) < 2) => submitted = <<>>
    /\ (pc = "returned") =>
         /\ Len(calls) = 3
         /\ \A i \in 1..3 : calls[i].ok
         /\ result.presentation_id = presentation.presentationId
    /\ (pc # "returned") => result = NoResult

C5_Witness ==
    pc = "returned" /\ Len(calls) = 3 /\ Len(submitted) > 12

\* the rank the claim attributes to a keyword: its own position, or the SERP
\* item's rank_absolute when it carries no position of its own
RankedPosition(kw) ==
    IF kw.has_position /\ kw.position # 0 THEN kw.position
    ELSE IF kw.has_rank THEN kw.rank_absolute
    ELSE 0

HasRank(kw) == RankedPosition(kw) # 0

\* C6: for a keyword list in which every keyword has a rank, needs_work_count is the
\* number of keywords whose ranked position is > 20 and <= 100; a keyword ranked
\* 1 to 20 is never counted.
C6_NeedsWorkCount ==
    (Built /\ \A i \in 1..Len(data.organic_keywords) : HasRank(data.organic_keywords[i])) =>
       needs_work_count =
         Cardinality({ i \in 1..Len(data.organic_keywords) :
                         /\ RankedPosition(data.organic_keywords[i]) > 20
                         /\ RankedPosition(data.organic_keywords[i]) <= 100 })

\* the normalized heading values of one tag that pass the length filter
KeysOf(pages, tag) ==
    { k \in UNION { { HeadingKey(TagList(pages[i], tag)[j]) :
                         j \in 1..Len(TagList(pages[i], tag)) } : i \in 1..Len(pages) } :
        Len(k) > 3 }

\* the pages (by position) on which a value occurs, and its occurrences
PagesWith(pages, tag, key) ==
    { i \in 1..Len(pages) :
        \E j \in 1..Len(TagList(pages[i], tag)) : HeadingKey(TagList(pages[i], tag)[j]) = key }

Occurrences(pages, tag, key) ==
    UNION { { <<i, j>> : j \in { n \in 1..Len(TagList(pages[i], tag)) :
                                     HeadingKey(TagList(pages[i], tag)[n]) = key } } :
            i \in 1..Len(pages) }

\* the heading bullets were recomputed from the page list
HeadingsRecomputed ==
    Built /\ HasImage(screenshots, "heading_issues") /\ ~Truthy(issue_counts)

TagAt == [tag \in {"h1", "h2", "h3"} |-> CASE tag = "h1" -> 3 [] tag = "h2" -> 6 [] tag = "h3" -> 9]

\* C7 (as stated): the recomputed duplicate-H1/H2/H3 count is the number of distinct
\* normalized heading values that occur on more than one distinct page; a value
\* repeated within a single page and on no other page is not counted.
C7_DuplicateAcrossPages ==
    HeadingsRecomputed =>
      \A tag \in {"h1", "h2", "h3"} :
         TextOf("data_headings", "_bullets")[TagAt[tag]] =
           Cardinality({ k \in KeysOf(data.pages, tag) :
                           Cardinality(PagesWith(data.pages, tag, k)) > 1 })

\* C7 (amended): the recomputed duplicate-H1/H2/H3 count is the number of distinct
\* normalized heading values (lower-cased, trimmed, length > 3) that occur more than
\* once in the heading lists of the page list, whether on several pages or several
\* times on one page: a value present on 3 pages counts once, and a value repeated
\* within a single page is counted as duplicate.
C7_DuplicateOccurrences ==
    HeadingsRecomputed =>
      \A tag \in {"h1", "h2", "h3"} :
         TextOf("data_headings", "_bullets")[TagAt[tag]] =
           Cardinality({ k \in KeysOf(data.pages, tag) :
                           Cardinality(Occurrences(data.pages, tag, k)) > 1 })

C7_Witness ==
    /\ HeadingsRecomputed
    /\ Len(data.pages) = 3
    /\ Cardinality(PagesWith(data.pages, "h1", HeadingKey(HWelc))) = 3
    /\ TextOf("data_headings", "_bullets")[3] = 1
    /\ \E i \in 1..3 : Len(TagList(data.pages[i], "h1")) = 2

\* C8 (as stated): whenever an issue_counts map is supplied, every meta-issue and
\* heading-issue count shown in the deck is the map's value, whatever the page list.
C8_SuppliedCountsAlwaysUsed ==
    (Built /\ issue_counts.given) =>
      /\ IF HasImage(screenshots, "meta_issues")
         THEN TextOf("data_meta", "_bullets") = MetaCountsFromMap(issue_counts)
         ELSE TextOf("data_meta", "_count")[1] = GetCount(issue_counts, "titleTooLong")
      /\ Emitted("data_headings") =>
           TextOf("data_headings", "_bullets") = HeadingCountsFromMap(issue_counts)

\* C8 (amended): whenever a non-empty issue_counts map is supplied, every count in
\* the meta-issue and heading-issue bullet lists (the slides built when the
\* meta_issues / heading_issues image is supplied) is the map's value (0 for a name
\* the map lacks) and the page list has no influence on it; those bullets are
\* recomputed from the page records only when issue_counts is absent or empty.  The
\* meta fallback table (no meta_issues image) always counts the flagged pages.
C8_SuppliedCountsInBullets ==
    Built =>
      /\ HasImage(screenshots, "meta_issues") =>
           TextOf("data_meta", "_bullets") =
             IF issue_counts.given /\ DOMAIN issue_counts.map # {}
             THEN << GetCount(issue_counts, "titleTooLong"), GetCount(issue_counts, "noDesc"),
                     GetCount(issue_counts, "descTooLong") >>
             ELSE MetaCountsFromPages(data.pages)
      /\ HasImage(screenshots, "heading_issues") =>
           TextOf("data_headings", "_bullets") =
             IF issue_counts.given /\ DOMAIN issue_counts.map # {}
             THEN [i \in 1..9 |->
                     GetCount(issue_counts,
                              << "noH1", "multiH1", "dupH1", "noH2", "manyH2", "dupH2",
                                 "noH3", "manyH3", "dupH3" >>[i])]
             ELSE HeadingCountsFromPages(data.pages)
      /\ ~HasImage(screenshots, "meta_issues") =>
           TextOf("data_meta", "_count")[1] =
             Min(5, Cardinality({ i \in 1..Len(data.pages) :
                                    data.pages[i].page.issues_title_too_long }))

C8_Witness ==
    /\ Built
    /\ HasImage(screenshots, "meta_issues") /\ HasImage(screenshots, "heading_issues")
    /\ issue_counts.given /\ DOMAIN issue_counts.map = {"titleTooLong", "dupH1"}
    /\ Len(data.pages) >= 2
    /\ MetaCountsFromPages(data.pages) # TextOf("data_meta", "_bullets")
    /\ HeadingCountsFromPages(data.pages) # TextOf("data_headings", "_bullets")

\* the declared type of each field of a formatted page
FieldTypes ==
    [ url |-> "str", status_code |-> "int", onpage_score |-> "int", title |-> "str",
      title_length |-> "int", description |-> "str", h1 |-> "list", h1_count |-> "int",
      load_time |-> "int", word_count |-> "int", is_https |-> "bool", is_http |-> "bool" ]

\* C9: every declared field of every page record get_page_issues returns is
\* non-null and of its declared type, whatever was missing or null in the raw item.
C9_FieldsTypedAndNonNull ==
    (page_result.kind = "success") =>
      \A i \in 1..Len(page_result.pages) :
        \A f \in DOMAIN FieldTypes : page_result.pages[i][f].t = FieldTypes[f]

\* C10: every value of the issues map of every page record get_page_issues returns
\* is a boolean, never null, also when a flag of `checks` is null.
C10_IssuesAreBooleans ==
    (page_result.kind = "success") =>
      \A i \in 1..Len(page_result.pages) :
        \A f \in DOMAIN page_result.pages[i].issues :
           page_result.pages[i].issues[f].t = "bool"

\* the outcome of the client call that has returned or raised
Outcome == IF page_result.kind # "none" THEN page_result ELSE client_result

\* C11: in get_page_issues a single malformed item of the provider's page list
\* (a null item, or an item whose meta, htags or checks is a scalar) never
\* makes the call raise: the call succeeds and every other page of the batch
\* is returned
C11_MalformedItemNeverRaises ==
    (page_result.kind # "none" /\ response.kind = "ok") =>
        /\ page_result.kind = "success"
        /\ \A i \in 1..Len(response.items) :
             ~PageRaises(response.items[i]) =>
                 \E j \in 1..Len(page_result.pages) :
                     page_result.pages[j] = FormatPage(response.items[i])

\* C12: every audit-provider client call answers an upstream failure (HTTP
\* error, missing credentials, empty task list, null or empty result) with a
\* {success: false, error} result; no exception propagates
C12_UpstreamFailureIsUniformResult ==
    (Outcome.kind # "none" /\ (~credentials \/ response.kind \in FailureKinds)) =>
        Outcome.kind = "failure"

\* the traffic dashboard is in the batch
DashboardShown == Built /\ Emitted("data_overview") /\ ~HasImage(screenshots, "traffic_overview")

\* C13: the total_traffic and total_keywords figures shown in the deck are
\* the provider's aggregates (the totals stored on the record, or those of its
\* rank overview) whenever the record holds them, never a sum over or a count
\* of the keyword sample
C13_TotalsFromProvider ==
    (DashboardShown /\ data.total_traffic # 0 /\ data.total_keywords # 0) =>
        /\ TextOf("data_overview", "_m0_v") \in {<<data.total_keywords>>, <<data.domain_rank.count>>}
        /\ TextOf("data_overview", "_m1_v") \in {<<data.total_traffic>>, <<data.domain_rank.etv>>}

\* the status a stored record carries, read the way the handlers read the blob
StatusOf(row) == Get(Loads(PyOr(row.blob, EmptyDict)), "status")

\* C14 (as stated): a record is created 'pending'; in every step the status of a
\* stored record is 'pending' or 'completed', and a record that is 'completed'
\* is never 'pending' afterwards.
C14_StatusOnlyAdvances ==
    [][\A i \in 1..Len(projects') :
         IF i > Len(projects)
         THEN StatusOf(projects'[i]) = Pending
         ELSE /\ StatusOf(projects'[i]) \in {Pending, Completed, JNull}
              /\ StatusOf(projects[i]) = Completed => StatusOf(projects'[i]) = Completed]_vars

\* a step in which the detail endpoint answered a request
DetailStep ==
    /\ handled' = handled + 1
    /\ inflight' = inflight
    /\ reply'.handler = "get_audit_detail_endpoint"
    /\ reply'.code = 200

\* C15: whenever the detail endpoint answers for a stored record, the audit it
\* returns has as many pages and as many keywords as the stored blob, and the
\* same status.
C15_DetailReadsBackWhatIsStored ==
    [][DetailStep =>
         LET stored == StoredAuditData(reply'.audit_id)
             audit == reply'.body
         IN stored.t = "dict" =>
              /\ PyLen(Get(audit, "pages")) = PyLen(GetD(stored, "pages", JList(<<>>)))
              /\ PyLen(Get(audit, "keywords")) = PyLen(GetD(stored, "organic_keywords", JList(<<>>)))
              /\ Get(audit, "status") = Get(stored, "status")]_vars

\* a record completed by save_audit_results, with pages, has been read back
C15_CompletedRecordReadBack ==
    /\ reply.handler = "get_audit_detail_endpoint"
    /\ reply.code = 200
    /\ PyLen(Get(reply.body, "pages")) > 0
    /\ Get(reply.body, "status") = Completed

\* C18 (as stated): no handler answers 500 because of the type of a stored blob:
\* a blob that is null or a JSON string is parsed or replaced by an empty object.
C18_BlobTypeTolerated ==
    reply.code = 500 => reply.body \notin {JWord("AttributeError"), JWord("TypeError")}

\* C19: the traffic annotation is "Low Organic Traffic" when the traffic is below
\* 20,000, otherwise "Many keywords need work" when the needs-work count is above
\* 20, otherwise "Strong Organic Traffic"; a missing figure counts as 0.
C19_TrafficAnnotation ==
    annotation.fn = "get_traffic_annotation_with_needs_work" =>
        LET traffic == IF metrics.traffic = JNull THEN 0 ELSE metrics.traffic.v
            needs_work == IF metrics.needs_work_count = JNull THEN 0 ELSE metrics.needs_work_count.v
        IN annotation.label =
             IF traffic < 20000 THEN "Low Organic Traffic"
             ELSE IF needs_work > 20 THEN "Many keywords need work"
             ELSE "Strong Organic Traffic"

\* the spec's example: traffic 25,000 with 25 keywords that need work
C19_ManyKeywordsNeedWork ==
    /\ annotation.fn = "get_traffic_annotation_with_needs_work"
    /\ metrics.traffic = JInt(25000)
    /\ metrics.needs_work_count = JInt(25)
    /\ annotation.label = "Many keywords need work"

\* C20: the keyword annotation is "Has potential for more visitors" exactly when
\* the needs-work count is above 50 or the keyword count is at least 100, and
\* "Limited Keywords" otherwise; a missing figure counts as 0.
C20_KeywordsAnnotation ==
    annotation.fn = "get_keywords_annotation" =>
        LET count == IF metrics.count = JNull THEN 0 ELSE metrics.count.v
            needs_work == IF metrics.needs_work_count = JNull THEN 0 ELSE metrics.needs_work_count.v
        IN /\ annotation.label \in {"Has potential for more visitors", "Limited Keywords"}
           /\ annotation.label = "Has potential for more visitors"
                <=> (needs_work > 50 \/ count >= 100)

\* few keywords, but more than 50 of them need work
C20_PotentialFromNeedsWorkAlone ==
    /\ annotation.fn = "get_keywords_annotation"
    /\ metrics.count = JInt(99)
    /\ metrics.needs_work_count = JInt(51)
    /\ annotation.label = "Has potential for more visitors"

\* C16 (as stated): the polling loop polls every 10 seconds and at most 180
\* times, and once the crawl is submitted the function always ends by returning
\* a result with success true: no poll and no ceiling aborts it.
C16_PollingEndsInSuccess ==
    /\ [](polls <= 180 /\ waited = 10 * polls)
    /\ (poll_pc = "polling") ~> (poll_pc = "returned" /\ site_audit.success)

\* C17 (as stated): once the screenshots are processed, the image map holds a key
\* exactly when the value supplied for it was already a URL or an upload for it
\* succeeded.
C17_KeptIffUrlOrUploaded ==
    (processed_screenshots.done /\ payload.is_dict) =>
        \A k \in UploadKeys :
            k \in processed_screenshots.keys
              <=> (IsUrl(payload.screenshots[k]) \/ uploaded[k])

C23_ReadabilityAnnotation ==
    annotation.fn = "get_readability_annotation" =>
        LET results == Len(metrics.grades)
            poor == results > 0 /\ SumGrades(metrics.grades) > 90 * results
        IN annotation.label =
             IF poor THEN "Poor Page Readability" ELSE "Content Readability is Apt"

\* two pages of grades 8 and 10: the average is exactly 9
C23_AptAtExactly9 ==
    /\ annotation.fn = "get_readability_annotation"
    /\ metrics.grades = <<80, 100>>
    /\ annotation.label = "Content Readability is Apt"

\* C24 (as stated): format_number gives millions with one decimal and M from
\* 1,000,000, thousands with one decimal and K from 1,000, the integer below,
\* "0" for a missing value; 18500 gives "18.5K" and 1,250,000 gives "1.3M".
C24_FormatNumber ==
    rendering.fn = "format_number" =>
        /\ metrics.n = JNull => rendering = Rendering(0, -1, "")
        /\ metrics.n # JNull =>
             /\ metrics.n.v >= 1000000 => rendering.suffix = "M" /\ rendering.tenth \in 0..9
             /\ (metrics.n.v >= 1000 /\ metrics.n.v < 1000000) =>
                    rendering.suffix = "K" /\ rendering.tenth \in 0..9
             /\ metrics.n.v < 1000 => rendering = Rendering(metrics.n.v, -1, "")
             /\ metrics.n.v = 18500 => rendering = Rendering(18, 5, "K")
             /\ metrics.n.v = 1250000 => rendering = Rendering(1, 3, "M")

\* the requests that create an object
CreateOps == {"createSlide", "createShape", "createImage", "createTable"}

\* the objectId of a request: the unit's slide id followed by the suffix
ObjectId(r) == <<r.sid, r.suffix>>

\* the positions at which a unit starts: its createSlide
UnitStarts(reqs) == { i \in 1..Len(reqs) : reqs[i].op = "createSlide" }

\* the last position of the unit that starts at s
UnitEnd(reqs, s) ==
    LET later == { t \in UnitStarts(reqs) : t > s }
    IN IF later = {} THEN Len(reqs)
       ELSE (CHOOSE t \in later : \A u \in later : t <= u) - 1

\* the unit that starts at s creates only its slide id and that id followed by a
\* suffix, and each of its other requests targets an object it created earlier
UnitSelfContained(reqs, s) ==
    LET e == UnitEnd(reqs, s)
        creates == { i \in s..e : reqs[i].op \in CreateOps }
    IN /\ reqs[s].suffix = ""
       /\ \A i \in (s + 1)..e :
            /\ reqs[i].sid = reqs[s].sid
            /\ IF i \in creates
               THEN reqs[i].suffix # ""
               ELSE \E j \in creates : j < i /\ ObjectId(reqs[j]) = ObjectId(reqs[i])

NoObjectCreatedTwice(reqs) ==
    LET creates == { i \in 1..Len(reqs) : reqs[i].op \in CreateOps }
    IN Cardinality({ ObjectId(reqs[i]) : i \in creates }) = Cardinality(creates)

\* C26: in the batch, every objectId a unit creates is the unit's slide id or that
\* id followed by a suffix, every other request of a unit targets an object the
\* same unit created earlier in the batch, and (the slide ids being distinct) no
\* objectId is created twice.  The deleteObject of the blank first slide comes
\* before the first unit and belongs to none.
C26_UnitsSelfContained ==
    Built =>
        /\ \A s \in UnitStarts(requests) : UnitSelfContained(requests, s)
        /\ \A i \in 1..Len(requests) :
             (\A s \in UnitStarts(requests) : i < s) => requests[i].op = "deleteObject"
        /\ NoObjectCreatedTwice(requests)

\* a batch with a table slide, an annotated image slide and a bulleted image slide
C26_Witness ==
    /\ Built
    /\ \E i \in 1..Len(requests) : requests[i].op = "createTable"
    /\ \E i \in 1..Len(requests) : requests[i].op = "insertText" /\ requests[i].suffix = "_ann_bg"
    /\ \E i \in 1..Len(requests) : requests[i].op = "insertText" /\ requests[i].suffix = "_bullets"
    /\ \E i \in 1..Len(requests) : requests[i].op = "insertText" /\ requests[i].suffix = "_stat"

\* a step in which save_audit_results writes the record back
SaveStep ==
    /\ inflight["save_audit_results"] # NotInFlight
    /\ inflight'["save_audit_results"] = NotInFlight

\* C29 (as stated): save_audit_results marks a record 'completed' only after a
\* successful page fetch; when the page fetch reports a failure, the write does
\* not set the status to 'completed' and does not replace a stored page list by
\* an empty one.
C29_CompletedOnlyAfterFetch ==
    [][(SaveStep /\ ~inflight["save_audit_results"].fetched
                 /\ Found(inflight["save_audit_results"].audit_id)) =>
         LET audit_id == inflight["save_audit_results"].audit_id
         IN /\ StatusOf(projects'[audit_id]) = Completed =>
                 StatusOf(projects[audit_id]) = Completed
            /\ Get(StoredAuditData(audit_id)', "pages") = JList(<<>>) =>
                 Get(StoredAuditData(audit_id), "pages") \in {JList(<<>>), JNull}]_vars

\* the audit data a row holds, as the handlers read it
AuditDataOf(row) == Loads(PyOr(row.blob, EmptyDict))

\* a step in which create_new_audit answered a request
CreateStep ==
    /\ handled' = handled + 1
    /\ inflight' = inflight
    /\ reply'.handler = "create_new_audit"

Dig(d, k) == IF d.t = "dict" THEN Get(d, k) ELSE JNull

\* deep_audit_slides.py, lines 460-468: the score the deck reads,
\* data.get('pagespeed', {}).get('scores', {}).get('performance', 0)
PerformanceScore(audit_data) ==
    LET pagespeed_data == Loads(GetD(audit_data, "pagespeed", EmptyDict))
        scores == GetD(pagespeed_data, "scores", EmptyDict)
    IN GetD(scores, "performance", JInt(0))

\* the mobile performance score a record holds: pagespeed.mobile.scores.performance
MobileScore(audit_data) ==
    Dig(Dig(Dig(Dig(audit_data, "pagespeed"), "mobile"), "scores"), "performance")

\* a step in which generate_deep_audit_slides handed a stored record to the deck
GenerateStep ==
    /\ handled' = handled + 1
    /\ inflight' = inflight
    /\ reply'.handler = "generate_deep_audit_slides"
    /\ reply'.code = 200

\* C28 (as stated): after any sequence of save_audit_results and refresh_speed
\* calls, whenever the record holds a mobile PageSpeed performance score, the
\* speed annotation of a deck generated next from that record is the annotation
\* of that stored score.
C28_SpeedAnnotationFromStoredScore ==
    [][(GenerateStep /\ MobileScore(StoredAuditData(reply'.audit_id)) # JNull) =>
         get_speed_annotation(PerformanceScore(reply'.body))
           = get_speed_annotation(MobileScore(StoredAuditData(reply'.audit_id)))]_vars

\* the fields save_audit_results does not assign
FrameKeys ==
    {"task_id", "domain", "organic_keywords", "total_traffic", "total_keywords",
     "backlinks_summary", "referring_domains", "readability_results"}

\* C27: the write of save_audit_results stores the fetched page list in place of
\* the old one, stores the pagespeed it built in place of the old one, sets the
\* status to 'completed', and stores every other field (task_id, domain,
\* organic_keywords, total_traffic, total_keywords, backlinks_summary,
\* referring_domains, readability_results) with the value the call read from
\* the record; no other record changes.
C27_SaveFrame ==
    [][(SaveStep /\ Found(inflight["save_audit_results"].audit_id)) =>
         LET mine == inflight["save_audit_results"]
             after == AuditDataOf(projects'[mine.audit_id])
         IN /\ Get(after, "pages") = JList(mine.pages)
            /\ Get(after, "pagespeed") \in { SavedPageSpeed(m) : m \in SpeedResults }
            /\ Get(after, "status") = Completed
            /\ \A k \in (FrameKeys \cup DOMAIN after.v) \ {"pages", "pagespeed", "status"} :
                 /\ (k \in DOMAIN after.v) <=> (k \in DOMAIN mine.audit_data.v)
                 /\ Get(after, k) = Get(mine.audit_data, k)
            /\ \A i \in 1..Len(projects) : i # mine.audit_id => projects'[i] = projects[i]
            /\ Len(projects') = Len(projects)]_vars

\* save_audit_results has completed a record that held keywords, a task id and
\* readability results, and they are still there
C27_SavedWithReadability ==
    /\ reply.handler = "save_audit_results" /\ reply.code = 200
    /\ Found(reply.audit_id)
    /\ LET audit_data == StoredAuditData(reply.audit_id)
       IN /\ Get(audit_data, "status") = Completed
          /\ Get(audit_data, "readability_results") = ReadabilityResults
          /\ ~Falsy(Get(audit_data, "organic_keywords"))
          /\ ~Falsy(Get(audit_data, "pages"))
          /\ Get(audit_data, "task_id") # JNull

\* the fields each writer assigns before it writes the blob back
WriterKeys(handler) ==
    CASE handler = "save_audit_results" -> {"pages", "pagespeed", "status"}
      [] handler = "analyze_readability" -> {"readability_results"}
      [] handler = "refresh_speed" -> {"pagespeed"}

\* a step in which the writer writes its blob back to a stored record
WriteStep(handler) ==
    /\ Len(written') = Len(written) + 1
    /\ written'[Len(written')].handler = handler
    /\ Found(inflight[handler].audit_id)

\* C25: no version check guards a write-back.  Whatever the record holds when a
\* writer (save_audit_results, analyze_readability, refresh_speed) writes, every
\* field the writer does not assign is stored with the value the writer read at
\* its start, so a field another writer wrote in between is overwritten with the
\* stale value.
C25_WriteBackStoresWhatWasRead ==
    [][\A handler \in Writers :
         WriteStep(handler) =>
           LET mine == inflight[handler]
               after == AuditDataOf(projects'[mine.audit_id])
           IN \A k \in (DOMAIN after.v \cup DOMAIN mine.audit_data.v) \ WriterKeys(handler) :
                /\ (k \in DOMAIN after.v) <=> (k \in DOMAIN mine.audit_data.v)
                /\ Get(after, k) = Get(mine.audit_data, k)]_vars

\* the lost update: save_audit_results wrote the record, then a writer that had
\* read it before wrote it back, and the status and the page list that
\* save_audit_results stored are gone
C25_LostUpdate ==
    /\ Len(written) = 2
    /\ written[1].handler = "save_audit_results"
    /\ written[2].handler \in {"analyze_readability", "refresh_speed"}
    /\ written[2].audit_id = written[1].audit_id
    /\ Found(written[1].audit_id)
    /\ LET audit_data == StoredAuditData(written[1].audit_id)
       IN /\ Get(audit_data, "status") = Pending
          /\ "pages" \notin DOMAIN audit_data.v

=============================================================================
